---- MODULE Spec2Model ----
(***************************************************************************)
(* travelhook: the webhook handler, the journey segmentation of            *)
(* handle_status_update and the commands that write to the trip store.     *)
(*                                                                         *)
(* Units.  Times are in hours since an arbitrary midnight, distances in    *)
(* kilometres.  All stops of the timetable lie on one meridian, where the  *)
(* great-circle distance of two stops is the length of the arc between     *)
(* them; a stop's position is its kilometre mark on that meridian.         *)
(*                                                                         *)
(* The module travelhook.database is not among the sources.  Its           *)
(* operations (Trip.upsert, Trip.find, Trip.find_last_trip_for,            *)
(* Trip.find_current_trips_for, Trip.delete, Trip.write_patch,             *)
(* User.do_break_journey) follow sections 3, 4.1 and 4.2 of the            *)
(* specification.                                                          *)
(*                                                                         *)
(* The handler runs under its user's lock from its first to its last       *)
(* statement; the commands take no lock.  One step of the model is one run *)
(* of a handler or command between two of its suspension points.  Under    *)
(* Spec every handler and command runs to its end in one step; SpecLock    *)
(* adds the handler's undo branch in two steps, suspended where it awaits  *)
(* the deletion of the trip's messages.                                    *)
(***************************************************************************)
EXTENDS Integers, Sequences, FiniteSets, TLC

VARIABLES
    trips,      \* trips[u]: the rows of table trips of user u
    mode,       \* mode[u]: users.break_journey of user u
    undoView,   \* undoView[u]: the unpatched status of the trip the open UndoView of u holds, or None
    lock,       \* lock[u]: whether user u's lock is held
    pending,    \* pending[u]: what the handler of u suspended in its undo branch has read, or None
    bench       \* what the functions looked at on their own work on: the documents of
                \* json_patch and its results; the headsign column of table trips;
                \* two statuses and their journey ids; the Message records

vars == <<trips, mode, undoView, lock, pending, bench>>

\* what the commands and the handler keep between two of their steps
control == <<undoView, lock, pending, bench>>

---------------------------------------------------------------------------
(* Bounds of the model *)

\* at most this many rows per user are stored
MaxTrips == 2

---------------------------------------------------------------------------
(* Constants of the program *)

\* change_distance > 2.0
BreakDistance == 2
\* change_duration > timedelta(hours=2)
BreakHours == 2

None == [nil |-> TRUE]

Users == {"u1"}

\* users.token_webhook, and a token that is nobody's
TokenWebhook == [u \in Users |-> <<"secret", u>>]
Tokens == {TokenWebhook[u] : u \in Users} \cup {<<"stranger">>}

NATURAL == "NATURAL"
FORCE_BREAK == "FORCE_BREAK"
FORCE_GLUE == "FORCE_GLUE"
BreakModes == {NATURAL, FORCE_BREAK, FORCE_GLUE}

\* the reasons the handler accepts, and one it does not
KnownReasons == {"update", "checkin", "ping", "checkout", "undo"}
Reasons == KnownReasons \cup {"hello"}

---------------------------------------------------------------------------
(* Statuses: the timetable the events are drawn from *)

\* the marker of a manually entered trip's train id
Marker == <<"travelhook", "faked">>

\* train ids are sequences of tokens; manualtrip makes the id of a trip
\* "travelhookfaked" + a random token
TrainA == <<"a">>
TrainB == <<"b">>
TrainFaked == Marker \o <<"x">>
TrainIds == {TrainA, TrainB, TrainFaked}

\* the route of each train: kilometre marks of its first and last stop.
\* manualtrip gives both stations of a faked trip the coordinates (0.0, 0.0)
RouteFrom(t) == IF t = TrainA THEN 0 ELSE IF t = TrainB THEN 6 ELSE 0
RouteTo(t) == IF t = TrainA THEN 3 ELSE IF t = TrainB THEN 2 ELSE 0

\* scheduled departures of each train; every ride takes one hour
Departures(t) ==
    IF t = TrainA THEN {10, 15} ELSE IF t = TrainB THEN {14} ELSE {13}

\* hours of delay a status of each train can report
Delays(t) == IF t = TrainFaked THEN {0, 1} ELSE {0}

Visibilities == {"public", "private"}
StationNames == {"", "Ziel"}

MkStatus(t, s, dd, ci, vis, nm) ==
    [ train |-> t,
      fromScheduled |-> s,
      fromReal |-> s + dd,
      fromLat |-> RouteFrom(t),
      toScheduled |-> s + 1,
      toReal |-> s + 1 + dd,
      toLat |-> RouteTo(t),
      toName |-> nm,
      checkedIn |-> ci,
      visibility |-> vis ]

\* the statuses of the timetable; a status without destination is one of
\* train A's first ride
TimetableStatuses ==
    { st \in { MkStatus(t, s, dd, ci, vis, nm) :
                 t \in TrainIds, s \in 10..15, dd \in {0, 1},
                 ci \in BOOLEAN, vis \in Visibilities, nm \in StationNames } :
        /\ st.fromScheduled \in Departures(st.train)
        /\ st.fromReal - st.fromScheduled \in Delays(st.train)
        /\ (st.toName = "" => st.train = TrainA /\ st.fromScheduled = 10) }

\* the events (reason, status) a request can carry: a checkin reports the
\* user checked in, a checkout reports the user checked out
Events ==
    { ev \in { <<reason, st>> : reason \in {"checkin", "update", "checkout"},
                                st \in TimetableStatuses } :
        /\ ev[1] = "checkin" => ev[2].checkedIn
        /\ ev[1] = "checkout" => ~ev[2].checkedIn }
    \cup { <<"undo", st>> :
             st \in {x \in TimetableStatuses : x.visibility = "public" /\ ~x.checkedIn} }
    \cup { <<reason, st>> : reason \in {"ping", "undo", "hello"},
             st \in {x \in TimetableStatuses : x.train = TrainB /\ x.toName # ""} }
    \cup { <<"ping", st>> : st \in {x \in TimetableStatuses : ~x.checkedIn} }

\* the statuses the status api answers
ApiStatuses == {st \in TimetableStatuses : st.toName # "" \/ st.checkedIn}

---------------------------------------------------------------------------
(* helpers.py *)

Digit(d) == CASE d = 0 -> "0" [] d = 1 -> "1" [] d = 2 -> "2" [] d = 3 -> "3"
              [] d = 4 -> "4" [] d = 5 -> "5" [] d = 6 -> "6" [] d = 7 -> "7"
              [] d = 8 -> "8" [] d = 9 -> "9"

\* str(n) of a natural number: its decimal digits
RECURSIVE Str(_)
Str(n) == IF n < 10 THEN <<Digit(n)>> ELSE Str(n \div 10) \o <<Digit(n % 10)>>

\* a plausible slip: the train id is left out of the key
zugid_of_departure(data) == Str(data.fromScheduled)

zugid(data) == Str(data.fromScheduled) \o data.train

---------------------------------------------------------------------------
(* The trip store.  A row is [journey_id, status, patch, sealed]: status  *)
(* is the raw status, sealed says that a journey break came after it.     *)

EmptyPatch == <<>>

\* the effective status: the raw status merged with the patch, patch fields win
Compose(raw, patch) ==
    [k \in DOMAIN raw |-> IF k \in DOMAIN patch THEN patch[k] ELSE raw[k]]

\* json_patch(old, new) of two patches without nulls
MergePatch(old, new) ==
    [k \in DOMAIN old \cup DOMAIN new |-> IF k \in DOMAIN new THEN new[k] ELSE old[k]]

\* Trip.status
Effective(row) == Compose(row.status, row.patch)

\* Trip.get_unpatched_status
get_unpatched_status(row) == row.status

\* Trip.from_time
FromTime(row) == row.status.fromReal

\* Trip.find
find(T, u, jid) ==
    IF \E r \in T[u] : r.journey_id = jid
    THEN CHOOSE r \in T[u] : r.journey_id = jid
    ELSE None

\* Trip.find_last_trip_for: a row of the latest departure, None without rows.
\* Rows of equal departure time are returned in no defined order: this is
\* the set of the possible answers.
find_last_trip_for(T, u) ==
    IF T[u] = {} THEN {None}
    ELSE {r \in T[u] : \A q \in T[u] : FromTime(q) <= FromTime(r)}

\* Trip.find_current_trips_for, as a set
find_current_trips_for(T, u) == {r \in T[u] : ~r.sealed}

NewRow(status) ==
    [journey_id |-> zugid(status), status |-> status, patch |-> EmptyPatch, sealed |-> FALSE]

\* Trip.upsert
upsert(T, u, status) ==
    LET old == find(T, u, zugid(status)) IN
    IF old = None
    THEN [T EXCEPT ![u] = @ \cup {NewRow(status)}]
    ELSE [T EXCEPT ![u] = (@ \ {old}) \cup {[old EXCEPT !.status = status]}]

\* Trip.delete: the row of this trip's key (user_id, journey_id)
delete(T, u, row) == [T EXCEPT ![u] = {r \in @ : r.journey_id # row.journey_id}]

\* Trip.write_patch
write_patch(T, u, row, patch) ==
    [T EXCEPT ![u] = (@ \ {row}) \cup {[row EXCEPT !.patch = patch]}]

\* the time travelynx reports for a stop it has no time for: unix time 0
Epoch == 0

\* Trip.maybe_fix_1970: a real time at the epoch gives way to the scheduled
\* time
maybe_fix_1970(row) ==
    [row EXCEPT !.status.fromReal = IF @ = Epoch THEN row.status.fromScheduled ELSE @,
                !.status.toReal = IF @ = Epoch THEN row.status.toScheduled ELSE @]

\* the corrections of the row of journey id jid, after its upsert
fix(T, u, jid) ==
    [T EXCEPT ![u] = {IF r.journey_id = jid THEN maybe_fix_1970(r) ELSE r : r \in @}]

\* User.do_break_journey: the rows stored so far leave the current journey
do_break_journey(T, u) ==
    [T EXCEPT ![u] = {[r EXCEPT !.sealed = TRUE] : r \in @}]

---------------------------------------------------------------------------
(* handle_status_update *)

Abs(x) == IF x < 0 THEN -x ELSE x

\* haversine of two stops of the meridian, in km
haversine(latA, latB) == Abs(latA - latB)

\* needle in haystack, of sequences
Contains(haystack, needle) ==
    \E i \in 1..(Len(haystack) - Len(needle) + 1) :
        SubSeq(haystack, i, i + Len(needle) - 1) = needle

\* a plausible slip: the gap of exactly two hours breaks
NaturalBreakAtTwoHours(old, new) ==
    \/ /\ haversine(old.toLat, new.fromLat) > BreakDistance
       /\ ~Contains(new.train \o old.train, Marker)
    \/ new.fromReal - old.toReal >= BreakHours

\* the last return of is_new_journey
NaturalBreak(old, new) ==
    LET change_distance == haversine(old.toLat, new.fromLat)
        change_duration == new.fromReal - old.toReal
    IN \/ /\ change_distance > BreakDistance
          /\ ~Contains(new.train \o old.train, Marker)
       \/ change_duration > BreakHours

\* the test of the first return of is_new_journey
CheckoutOfCurrentTrain(T, u, reason, new) ==
    /\ reason = "checkout"
    /\ new.train \in {Effective(r).train : r \in find_current_trips_for(T, u)}

\* a plausible slip: the break mode is looked at before the train ids
is_new_journey_mode_first(T, m, u, reason, old, new) ==
    IF CheckoutOfCurrentTrain(T, u, reason, new)
    THEN [brk |-> FALSE, mode |-> m, rule |-> "checkout_race"]
    ELSE IF m = FORCE_BREAK
    THEN [brk |-> TRUE, mode |-> NATURAL, rule |-> "force_break"]
    ELSE IF m = FORCE_GLUE
    THEN [brk |-> FALSE, mode |-> NATURAL, rule |-> "force_glue"]
    ELSE IF old.train = new.train
    THEN [brk |-> FALSE, mode |-> m, rule |-> "same_train"]
    ELSE [brk |-> NaturalBreak(old, new), mode |-> m, rule |-> "natural"]

\* a plausible slip: no test for the checkout of a train of the current journey
is_new_journey_no_checkout_test(T, m, u, reason, old, new) ==
    IF old.train = new.train
    THEN [brk |-> FALSE, mode |-> m, rule |-> "same_train"]
    ELSE IF m = FORCE_BREAK
    THEN [brk |-> TRUE, mode |-> NATURAL, rule |-> "force_break"]
    ELSE IF m = FORCE_GLUE
    THEN [brk |-> FALSE, mode |-> NATURAL, rule |-> "force_glue"]
    ELSE [brk |-> NaturalBreak(old, new), mode |-> m, rule |-> "natural"]

\* a plausible slip: FORCE_BREAK is not set back
is_new_journey_keeps_force_break(T, m, u, reason, old, new) ==
    IF CheckoutOfCurrentTrain(T, u, reason, new)
    THEN [brk |-> FALSE, mode |-> m, rule |-> "checkout_race"]
    ELSE IF old.train = new.train
    THEN [brk |-> FALSE, mode |-> m, rule |-> "same_train"]
    ELSE IF m = FORCE_BREAK
    THEN [brk |-> TRUE, mode |-> m, rule |-> "force_break"]
    ELSE IF m = FORCE_GLUE
    THEN [brk |-> FALSE, mode |-> NATURAL, rule |-> "force_glue"]
    ELSE [brk |-> NaturalBreak(old, new), mode |-> m, rule |-> "natural"]

\* a plausible slip: FORCE_GLUE falls through to the natural rule
is_new_journey_glue_falls_through(T, m, u, reason, old, new) ==
    IF CheckoutOfCurrentTrain(T, u, reason, new)
    THEN [brk |-> FALSE, mode |-> m, rule |-> "checkout_race"]
    ELSE IF old.train = new.train
    THEN [brk |-> FALSE, mode |-> m, rule |-> "same_train"]
    ELSE IF m = FORCE_BREAK
    THEN [brk |-> TRUE, mode |-> NATURAL, rule |-> "force_break"]
    ELSE [brk |-> NaturalBreak(old, new), mode |-> NATURAL, rule |-> "natural"]

\* a plausible slip: the same train sets the break mode back
is_new_journey_same_train_resets(T, m, u, reason, old, new) ==
    IF CheckoutOfCurrentTrain(T, u, reason, new)
    THEN [brk |-> FALSE, mode |-> m, rule |-> "checkout_race"]
    ELSE IF old.train = new.train
    THEN [brk |-> FALSE, mode |-> NATURAL, rule |-> "same_train"]
    ELSE IF m = FORCE_BREAK
    THEN [brk |-> TRUE, mode |-> NATURAL, rule |-> "force_break"]
    ELSE IF m = FORCE_GLUE
    THEN [brk |-> FALSE, mode |-> NATURAL, rule |-> "force_glue"]
    ELSE [brk |-> NaturalBreak(old, new), mode |-> m, rule |-> "natural"]

\* is_new_journey(old, new) in handle_status_update(u, reason, new) with
\* break mode m: whether to break, the break mode left, the rule that decided
is_new_journey(T, m, u, reason, old, new) ==
    IF CheckoutOfCurrentTrain(T, u, reason, new)
    THEN [brk |-> FALSE, mode |-> m, rule |-> "checkout_race"]
    ELSE IF old.train = new.train
    THEN [brk |-> FALSE, mode |-> m, rule |-> "same_train"]
    ELSE IF m = FORCE_BREAK
    THEN [brk |-> TRUE, mode |-> NATURAL, rule |-> "force_break"]
    ELSE IF m = FORCE_GLUE
    THEN [brk |-> FALSE, mode |-> NATURAL, rule |-> "force_glue"]
    ELSE [brk |-> NaturalBreak(old, new), mode |-> m, rule |-> "natural"]

\* a plausible slip: the previous trip is read without its patch
Decision_reads_raw(T, M, u, reason, status, last) ==
    IF last = None
    THEN [brk |-> FALSE, mode |-> M[u], rule |-> "first"]
    ELSE is_new_journey(T, M[u], u, reason, get_unpatched_status(last), status)

\* a plausible slip: the first trip consumes the break mode
Decision_first_consumes(T, M, u, reason, status, last) ==
    IF last = None
    THEN [brk |-> FALSE, mode |-> NATURAL, rule |-> "first"]
    ELSE is_new_journey(T, M[u], u, reason, Effective(last), status)

\* the decision of handle_status_update, last being what
\* find_last_trip_for answered
Decision(T, M, u, reason, status, last) ==
    IF last = None
    THEN [brk |-> FALSE, mode |-> M[u], rule |-> "first"]
    ELSE is_new_journey(T, M[u], u, reason, Effective(last), status)

\* a plausible slip: the status is inserted as a new row, not upserted
handle_status_update_inserts(T, M, u, reason, status, last) ==
    LET d == Decision(T, M, u, reason, status, last)
        T1 == IF d.brk THEN do_break_journey(T, u) ELSE T
    IN [ trips |-> [T1 EXCEPT ![u] = @ \cup {NewRow(status)}],
         mode |-> [M EXCEPT ![u] = d.mode],
         rule |-> d.rule,
         broke |-> d.brk ]

\* a plausible slip: the trip is stored as checked in, as UndoView.doit does
handle_status_update_stores_open(T, M, u, reason, status, last) ==
    LET d == Decision(T, M, u, reason, status, last)
        T1 == IF d.brk THEN do_break_journey(T, u) ELSE T
    IN [ trips |-> upsert(T1, u, [status EXCEPT !.checkedIn = TRUE]),
         mode |-> [M EXCEPT ![u] = d.mode],
         rule |-> d.rule,
         broke |-> d.brk ]

\* a plausible slip: a stored trip that is checked out is left as it is
handle_status_update_keeps_closed(T, M, u, reason, status, last) ==
    LET d == Decision(T, M, u, reason, status, last)
        T1 == IF d.brk THEN do_break_journey(T, u) ELSE T
        old == find(T1, u, zugid(status))
    IN [ trips |-> IF old # None /\ ~old.status.checkedIn THEN T1 ELSE upsert(T1, u, status),
         mode |-> [M EXCEPT ![u] = d.mode],
         rule |-> d.rule,
         broke |-> d.brk ]

\* handle_status_update(u, reason, status): the store and the break modes it
\* leaves, the rule that decided and whether do_break_journey was called
handle_status_update(T, M, u, reason, status, last) ==
    LET d == Decision(T, M, u, reason, status, last)
        T1 == IF d.brk THEN do_break_journey(T, u) ELSE T
    IN [ trips |-> fix(upsert(T1, u, status), u, zugid(status)),
         mode |-> [M EXCEPT ![u] = d.mode],
         rule |-> d.rule,
         broke |-> d.brk ]

---------------------------------------------------------------------------
(* receive.handler *)

\* the events the handler's validation lets pass
WellFormed(reason, status) == reason \in KnownReasons /\ status.toName # ""

\* an exit of the handler that did not reach handle_status_update
Answer(T, M, resp) ==
    [trips |-> T, mode |-> M, resp |-> resp, rule |-> "none", broke |-> FALSE]

Published(h) ==
    [ trips |-> h.trips, mode |-> h.mode, resp |-> "published",
      rule |-> h.rule, broke |-> h.broke ]

\* a plausible slip: the undo is refused while the last trip is checked in
handler_refuses_open_trip(T, M, u, reason, status, last) ==
    IF reason = "ping" /\ ~status.checkedIn
    THEN Answer(T, M, "connected")
    ELSE IF reason \notin KnownReasons \/ status.toName = ""
    THEN Answer(T, M, "no_content")
    ELSE IF reason = "undo" /\ ~status.checkedIn
    THEN IF last = None
         THEN Answer(T, M, "error")
         ELSE IF Effective(last).checkedIn
         THEN Answer(T, M, "not_unpublishing")
         ELSE Answer(delete(T, u, last), M, "unpublished")
    ELSE IF status.visibility = "private"
    THEN LET trip == find(T, u, zugid(status)) IN
         Answer(IF trip # None THEN delete(T, u, trip) ELSE T, M, "not_publishing")
    ELSE Published(handle_status_update(T, M, u, reason, status, last))

\* a plausible slip: a private status is skipped, not scrubbed
handler_skips_private(T, M, u, reason, status, last) ==
    IF reason = "ping" /\ ~status.checkedIn
    THEN Answer(T, M, "connected")
    ELSE IF reason \notin KnownReasons \/ status.toName = ""
    THEN Answer(T, M, "no_content")
    ELSE IF reason = "undo" /\ ~status.checkedIn
    THEN IF last = None
         THEN Answer(T, M, "error")
         ELSE IF ~Effective(last).checkedIn
         THEN Answer(T, M, "not_unpublishing")
         ELSE Answer(delete(T, u, last), M, "unpublished")
    ELSE IF status.visibility = "private"
    THEN Answer(T, M, "not_publishing")
    ELSE Published(handle_status_update(T, M, u, reason, status, last))

\* a plausible slip: the event is validated before the ping is answered
handler_validates_before_ping(T, M, u, reason, status, last) ==
    IF reason \notin KnownReasons \/ status.toName = ""
    THEN Answer(T, M, "no_content")
    ELSE IF reason = "ping" /\ ~status.checkedIn
    THEN Answer(T, M, "connected")
    ELSE IF reason = "undo" /\ ~status.checkedIn
    THEN IF last = None
         THEN Answer(T, M, "error")
         ELSE IF ~Effective(last).checkedIn
         THEN Answer(T, M, "not_unpublishing")
         ELSE Answer(delete(T, u, last), M, "unpublished")
    ELSE IF status.visibility = "private"
    THEN LET trip == find(T, u, zugid(status)) IN
         Answer(IF trip # None THEN delete(T, u, trip) ELSE T, M, "not_publishing")
    ELSE Published(handle_status_update(T, M, u, reason, status, last))

\* a plausible slip: only the reason is validated, not the destination
handler_accepts_unnamed(T, M, u, reason, status, last) ==
    IF reason = "ping" /\ ~status.checkedIn
    THEN Answer(T, M, "connected")
    ELSE IF reason \notin KnownReasons
    THEN Answer(T, M, "no_content")
    ELSE IF reason = "undo" /\ ~status.checkedIn
    THEN IF last = None
         THEN Answer(T, M, "error")
         ELSE IF ~Effective(last).checkedIn
         THEN Answer(T, M, "not_unpublishing")
         ELSE Answer(delete(T, u, last), M, "unpublished")
    ELSE IF status.visibility = "private"
    THEN LET trip == find(T, u, zugid(status)) IN
         Answer(IF trip # None THEN delete(T, u, trip) ELSE T, M, "not_publishing")
    ELSE Published(handle_status_update(T, M, u, reason, status, last))

\* a plausible slip: the undo deletes the trip's messages, not the trip
handler_undo_keeps_trip(T, M, u, reason, status, last) ==
    IF reason = "ping" /\ ~status.checkedIn
    THEN Answer(T, M, "connected")
    ELSE IF reason \notin KnownReasons \/ status.toName = ""
    THEN Answer(T, M, "no_content")
    ELSE IF reason = "undo" /\ ~status.checkedIn
    THEN IF last = None
         THEN Answer(T, M, "error")
         ELSE IF ~Effective(last).checkedIn
         THEN Answer(T, M, "not_unpublishing")
         ELSE Answer(T, M, "unpublished")
    ELSE IF status.visibility = "private"
    THEN LET trip == find(T, u, zugid(status)) IN
         Answer(IF trip # None THEN delete(T, u, trip) ELSE T, M, "not_publishing")
    ELSE Published(handle_status_update(T, M, u, reason, status, last))

\* a plausible slip: the undo deletes the trip of the event's status
handler_undo_of_event(T, M, u, reason, status, last) ==
    IF reason = "ping" /\ ~status.checkedIn
    THEN Answer(T, M, "connected")
    ELSE IF reason \notin KnownReasons \/ status.toName = ""
    THEN Answer(T, M, "no_content")
    ELSE IF reason = "undo" /\ ~status.checkedIn
    THEN IF last = None
         THEN Answer(T, M, "error")
         ELSE IF ~Effective(last).checkedIn
         THEN Answer(T, M, "not_unpublishing")
         ELSE LET trip == find(T, u, zugid(status)) IN
              Answer(delete(T, u, IF trip # None THEN trip ELSE last), M, "unpublished")
    ELSE IF status.visibility = "private"
    THEN LET trip == find(T, u, zugid(status)) IN
         Answer(IF trip # None THEN delete(T, u, trip) ELSE T, M, "not_publishing")
    ELSE Published(handle_status_update(T, M, u, reason, status, last))

\* the handler's body for the event (reason, status) of user u, last being
\* what find_last_trip_for answers: the store and the break modes it leaves,
\* its answer, and what handle_status_update decided.  The answer "error" is
\* the AttributeError of last_trip.status without a last trip.
handler(T, M, u, reason, status, last) ==
    IF reason = "ping" /\ ~status.checkedIn
    THEN Answer(T, M, "connected")
    ELSE IF reason \notin KnownReasons \/ status.toName = ""
    THEN Answer(T, M, "no_content")
    ELSE IF reason = "undo" /\ ~status.checkedIn
    THEN IF last = None
         THEN Answer(T, M, "error")
         ELSE IF ~Effective(last).checkedIn
         THEN Answer(T, M, "not_unpublishing")
         ELSE Answer(delete(T, u, last), M, "unpublished")
    ELSE IF status.visibility = "private"
    THEN LET trip == find(T, u, zugid(status)) IN
         Answer(IF trip # None THEN delete(T, u, trip) ELSE T, M, "not_publishing")
    ELSE Published(handle_status_update(T, M, u, reason, status, last))

---------------------------------------------------------------------------
(* The state machine *)

Init ==
    /\ trips = [u \in Users |-> {}]
    /\ mode = [u \in Users |-> NATURAL]
    /\ undoView = [u \in Users |-> None]
    /\ lock = [u \in Users |-> FALSE]
    /\ pending = [u \in Users |-> None]
    /\ bench = None

\* DB.User.find(token_webhook=tok): the users with that webhook token
User_find(tok) == {u \in Users : TokenWebhook[u] = tok}

\* a plausible slip: the request of no user does not return, and is handled
\* as a request of some user
receive_without_return(T, M, tok, reason, status) ==
    UNION {{LET o == handler(T, M, u, reason, status, last)
            IN [trips |-> o.trips, mode |-> o.mode] :
               last \in find_last_trip_for(T, u)} :
           u \in IF User_find(tok) = {} THEN Users ELSE User_find(tok)}

\* the stored state a request with bearer token tok can leave: the request
\* of no user returns at once, that of a user runs the handler under the
\* user's lock
receive(T, M, tok, reason, status) ==
    IF User_find(tok) = {}
    THEN {[trips |-> T, mode |-> M]}
    ELSE UNION {{LET o == handler(T, M, u, reason, status, last)
                 IN [trips |-> o.trips, mode |-> o.mode] :
                    last \in find_last_trip_for(T, u)} : u \in User_find(tok)}

\* a request whose bearer token is no user's; its body is not read before
\* the user is looked up, so one event stands for every body
ReceiveUnknown ==
    \E tok \in Tokens :
        /\ \A u \in Users : TokenWebhook[u] # tok
        /\ LET ev == CHOOSE e \in Events : e[1] = "checkin" IN
           \E o \in receive(trips, mode, tok, ev[1], ev[2]) :
              /\ trips' = o.trips
              /\ mode' = o.mode
        /\ UNCHANGED control

\* a request with user u's webhook token; the handler takes the user's lock
\* and runs to its end
Receive(u, reason, status) ==
    /\ ~lock[u]
    /\ \E last \in find_last_trip_for(trips, u) :
        LET o == handler(trips, mode, u, reason, status, last) IN
        /\ Cardinality(o.trips[u]) <= MaxTrips
        /\ trips' = o.trips
        /\ mode' = o.mode
        /\ UNCHANGED control

\* /journey break
_break(u, break_mode) ==
    /\ mode' = [mode EXCEPT ![u] = break_mode]
    /\ UNCHANGED <<trips, control>>

\* /zug: the status api answers status; a checked-in, non-private status is
\* handled as an update
zug(u, status) ==
    IF ~status.checkedIn \/ status.visibility = "private"
    THEN UNCHANGED vars
    ELSE \E last \in find_last_trip_for(trips, u) :
        LET h == handle_status_update(trips, mode, u, "update", status, last) IN
        /\ Cardinality(h.trips[u]) <= MaxTrips
        /\ trips' = h.trips
        /\ mode' = h.mode
        /\ UNCHANGED control

\* an optional argument of a command: <<>> when it is left out
Omitted == <<>>
Given(x) == <<x>>

\* the arguments (departure, arrival) of /journey delay, in hours
DelayArguments == {<<Omitted, Given(1)>>}

\* prepare_patch of /journey delay for trip
DelayPatch(trip, departure, arrival) ==
    LET dep == IF departure # Omitted
               THEN [fromReal |-> Effective(trip).fromScheduled + departure[1]]
               ELSE EmptyPatch
        arr == IF arrival # Omitted
               THEN [toReal |-> Effective(trip).toScheduled + arrival[1]]
               ELSE EmptyPatch
    IN MergePatch(dep, arr)

\* the reason of the mocked event the commands post after they wrote a patch
MockedReason(trip) == IF Effective(trip).checkedIn THEN "update" ELSE "checkout"

\* a plausible slip: the patched status is posted
MockedStatusPatched(trip) == Effective(trip)

\* the status of the mocked event
MockedStatus(trip) == get_unpatched_status(trip)

\* /journey delay, its write: the trip's patch merged with prepare_patch
delay_newpatch(trip, departure, arrival) ==
    MergePatch(trip.patch, DelayPatch(trip, departure, arrival))

delay_write(T, u, trip, departure, arrival) ==
    write_patch(T, u, trip, delay_newpatch(trip, departure, arrival))

\* /journey delay, its post: the handler's run for the mocked event, last
\* being what find_last_trip_for answers then
delay_post(T, M, u, trip, last) ==
    handler(T, M, u, MockedReason(trip), MockedStatus(trip), last)

\* /journey delay: patch the last trip, then post its unpatched status to
\* the webhook
delay(u, departure, arrival) ==
    /\ UNCHANGED control
    /\ \E trip \in find_last_trip_for(trips, u) :
        IF trip = None
        THEN UNCHANGED <<trips, mode>>
        ELSE LET T1 == delay_write(trips, u, trip, departure, arrival)
             IN IF lock[u]
                \* the posted event waits for the lock, and is received later
                THEN trips' = T1 /\ UNCHANGED mode
                ELSE \E last \in find_last_trip_for(T1, u) :
                 LET o == delay_post(T1, mode, u, trip, last) IN
                 /\ trips' = o.trips
                 /\ mode' = o.mode

\* /journey undo: ask to confirm the undo of the last trip, unless it is
\* checked in.  Without a last trip the command raises and changes nothing.
undo(u) ==
    /\ UNCHANGED <<trips, mode, lock, pending, bench>>
    /\ \E trip \in find_last_trip_for(trips, u) :
        IF trip = None \/ Effective(trip).checkedIn
        THEN UNCHANGED undoView
        ELSE undoView' = [undoView EXCEPT ![u] = get_unpatched_status(trip)]

\* UndoView.doit: store the trip as checked in, then post the undo event
doit(u) ==
    /\ undoView[u] # None
    /\ LET status == undoView[u]
           T1 == upsert(trips, u, [status EXCEPT !.checkedIn = TRUE])
       IN /\ Cardinality(T1[u]) <= MaxTrips
          /\ \E last \in find_last_trip_for(T1, u) :
               LET o == handler(T1, mode, u, "undo", [status EXCEPT !.checkedIn = FALSE], last) IN
               /\ trips' = o.trips
               /\ mode' = o.mode
    /\ undoView' = [undoView EXCEPT ![u] = None]
    /\ UNCHANGED <<lock, pending, bench>>

\* the webhook, /journey break, /zug and /journey delay
Next ==
    \/ ReceiveUnknown
    \/ \E u \in Users, ev \in Events : Receive(u, ev[1], ev[2])
    \/ \E u \in Users, m \in BreakModes : _break(u, m)
    \/ \E u \in Users, status \in ApiStatuses : zug(u, status)
    \/ \E u \in Users, a \in DelayArguments : delay(u, a[1], a[2])

Spec == Init /\ [][Next]_vars

\* the same with /journey undo and its confirmation
NextUndo ==
    \/ Next
    \/ \E u \in Users : undo(u)
    \/ \E u \in Users : doit(u)

SpecUndo == Init /\ [][NextUndo]_vars

\* /journey edit with an arrival delay: the view holds the last trip and the
\* new patch.  Without a last trip the command answers and changes nothing.
edit_arrival_delay(u) ==
    /\ bench = None
    /\ \E trip \in find_last_trip_for(trips, u) :
        /\ trip # None
        /\ bench' = [user_id |-> u, journey_id |-> trip.journey_id,
                     newpatch |-> delay_newpatch(trip, Omitted, Given(1))]
    /\ UNCHANGED <<trips, mode, undoView, lock, pending>>

\* the mocked event EditTripView.commit posts for the trip it holds, after
\* it wrote the patch into store T: the handler's run
commit_post(T, M, u, jid, last) ==
    handler(T, M, u, MockedReason(find(T, u, jid)), MockedStatus(find(T, u, jid)), last)

\* EditTripView.commit: write newpatch, read the trip again and post its
\* unpatched status.  If the trip is gone, reading its status raises.
commit_edit(u) ==
    /\ bench # None
    /\ bench.user_id = u
    /\ bench' = None
    /\ UNCHANGED <<undoView, lock, pending>>
    /\ LET trip == find(trips, u, bench.journey_id) IN
        IF trip = None
        THEN UNCHANGED <<trips, mode>>
        ELSE LET T1 == write_patch(trips, u, trip, bench.newpatch) IN
             \E last \in find_last_trip_for(T1, u) :
                LET o == commit_post(T1, mode, u, bench.journey_id, last) IN
                /\ trips' = o.trips
                /\ mode' = o.mode

\* the webhook and the commands, with /journey edit and its confirmation
NextCommit ==
    \/ Next
    \/ \E u \in Users : edit_arrival_delay(u)
    \/ \E u \in Users : commit_edit(u)

SpecCommit == Init /\ [][NextCommit]_vars

\* a late ride of train A, for which travelynx reports the epoch as the real
\* departure
LateDeparture == 18
SentinelStatuses ==
    {[MkStatus(TrainA, LateDeparture, 0, ci, "public", "Ziel") EXCEPT !.fromReal = Epoch] :
        ci \in BOOLEAN}
SentinelEvents ==
    {ev \in {"checkin", "update", "checkout"} \X SentinelStatuses :
        ev[1] = "checkin" => ev[2].checkedIn}

\* the webhook and the commands, with the events of that ride
NextFix ==
    \/ Next
    \/ \E u \in Users, ev \in SentinelEvents : Receive(u, ev[1], ev[2])

SpecFix == Init /\ [][NextFix]_vars

\* the handler's undo branch up to its first await: under the lock it reads
\* the last trip, finds it checked in, and awaits the deletion of the
\* trip's messages
UndoSuspend(u, status) ==
    /\ ~lock[u]
    /\ WellFormed("undo", status) /\ ~status.checkedIn
    /\ \E last \in find_last_trip_for(trips, u) :
        /\ last # None
        /\ Effective(last).checkedIn
        /\ lock' = [lock EXCEPT ![u] = TRUE]
        /\ pending' = [pending EXCEPT ![u] = [last_trip |-> last, seen |-> trips[u]]]
    /\ UNCHANGED <<trips, mode, undoView, bench>>

\* the rest of the undo branch: last_trip.delete(), and the lock is released
UndoResume(u) ==
    /\ pending[u] # None
    /\ trips' = delete(trips, u, pending[u].last_trip)
    /\ lock' = [lock EXCEPT ![u] = FALSE]
    /\ pending' = [pending EXCEPT ![u] = None]
    /\ UNCHANGED <<mode, undoView, bench>>

\* the webhook and the commands, with the handler's undo branch suspended
\* at its await
NextLock ==
    \/ Next
    \/ \E u \in Users, ev \in {e \in Events : e[1] = "undo"} : UndoSuspend(u, ev[2])
    \/ \E u \in Users : UndoResume(u)

SpecLock == Init /\ [][NextLock]_vars

---------------------------------------------------------------------------
(* json_patch, and /journey edit's use of it.  A JSON value is a leaf, a    *)
(* null or an object [k |-> "obj", m |-> its members]; Absent stands for a  *)
(* member an object does not have.                                          *)

Leaf(v) == [k |-> "leaf", v |-> v]
Null == [k |-> "null"]
Obj(m) == [k |-> "obj", m |-> m]
Absent == [k |-> "absent"]

\* json_patch(target, patch) of SQLite, the merge patch of RFC 7396: a patch
\* that is no object replaces the target; a patch that is an object is
\* merged into the target member by member, a null member of the patch
\* removing the target's member, and a target that is no object counting as
\* the empty object
RECURSIVE json_patch(_, _)
json_patch(target, patch) ==
    IF patch.k # "obj"
    THEN patch
    ELSE LET tm == IF target.k = "obj" THEN target.m ELSE <<>>
             removed == {n \in DOMAIN patch.m : patch.m[n].k = "null"}
             written == DOMAIN patch.m \ removed
             kept == {n \in DOMAIN tm : n \notin DOMAIN patch.m}
         IN Obj([n \in kept \cup written |->
                   IF n \in written
                   THEN json_patch(IF n \in DOMAIN tm THEN tm[n] ELSE Absent, patch.m[n])
                   ELSE tm[n]])

\* the members of the documents: one that holds an object, one that holds
\* a text
StationKeys == {"name", "realTime"}
DocKeys == {"fromStation", "comment"}

\* the object of the members that f gives a value
Members(f) == Obj([n \in {x \in DOMAIN f : f[x] # Absent} |-> f[n]])

\* the documents whose leaves are v; nulls says whether members can be null
Stations(v, nulls) ==
    {Members(f) : f \in [StationKeys -> {Absent, Leaf(v)} \cup (IF nulls THEN {Null} ELSE {})]}
Docs(v, nulls) ==
    {Members(f) :
        f \in {g \in [DocKeys -> {Absent, Leaf(v)} \cup (IF nulls THEN {Null} ELSE {})
                                    \cup Stations(v, nulls)] :
                 g["comment"].k # "obj"}}

\* the raw statuses, the stored patches and the patches /journey edit
\* prepares.  A field that edit was not given is null in prepare_patch; a
\* stored patch has no null, as it is the empty patch, a result of
\* json_patch into a stored patch, or the text of EnterStatusPatchModal.
RawStatuses == Docs("raw", FALSE)
StoredPatches == Docs("old", FALSE)
PreparedPatches == Docs("new", TRUE)

\* a plausible slip: the prepared patch replaces the stored one
edit_newpatch_replaces(status_patch, prepare_patch) == prepare_patch

\* /journey edit: newpatch
edit_newpatch(status_patch, prepare_patch) == json_patch(status_patch, prepare_patch)

\* /journey edit: newpatched_status; render_patched_train: status
render_patched(travelynx_status, newpatch) == json_patch(travelynx_status, newpatch)

\* a trip with a stored patch, and the patch /journey edit has prepared
InitPatch ==
    /\ trips = [u \in Users |-> {}]
    /\ mode = [u \in Users |-> NATURAL]
    /\ undoView = [u \in Users |-> None]
    /\ lock = [u \in Users |-> FALSE]
    /\ pending = [u \in Users |-> None]
    /\ bench \in [ travelynx_status : RawStatuses, status_patch : StoredPatches,
                    prepare_patch : PreparedPatches, newpatch : {None},
                    newpatched_status : {None} ]

\* /journey edit merges the prepared patch into the stored one
EditMerge ==
    /\ bench # None
    /\ bench.newpatch = None
    /\ bench' = [bench EXCEPT !.newpatch = edit_newpatch(bench.status_patch, bench.prepare_patch)]
    /\ UNCHANGED <<trips, mode, undoView, lock, pending>>

\* and renders the raw status with the new patch
EditRender ==
    /\ bench # None
    /\ bench.newpatch # None
    /\ bench.newpatched_status = None
    /\ bench' = [bench EXCEPT !.newpatched_status =
                                  render_patched(bench.travelynx_status, bench.newpatch)]
    /\ UNCHANGED <<trips, mode, undoView, lock, pending>>

NextPatch == EditMerge \/ EditRender

SpecPatch == InitPatch /\ [][NextPatch]_vars

---------------------------------------------------------------------------
(* An edit session: /journey edit prepares a patch and shows it in an      *)
(* EditTripView, whose button commits it; /journey delay writes a patch of *)
(* its own in between.  bench is [status_patch, view]: the stored patch of *)
(* the trip, and the open view [seen, prepare_patch, newpatch], seen being *)
(* the status_patch of the trip object the view holds.                     *)

\* the arguments (from_station, departure_delay, comment) of /journey edit
EditArguments ==
    {Omitted, Given("new")} \X {Omitted, Given("new")} \X {Omitted, Given("new")}

\* a member of prepare_patch that is set to an argument: null when the
\* argument was left out
Argument(a) == IF a = Omitted THEN Null ELSE Leaf(a[1])

\* /journey edit: prepare_patch
edit_prepare_patch(from_station, departure_delay, comment) ==
    Members([n \in DocKeys |->
        IF n = "comment"
        THEN Argument(comment)
        ELSE IF from_station # Omitted \/ departure_delay # Omitted
        THEN Members([k \in StationKeys |->
                IF k = "name" THEN Argument(from_station)
                ELSE IF departure_delay # Omitted THEN Leaf(departure_delay[1])
                ELSE Absent])
        ELSE Absent])

\* /journey delay with a departure delay: prepare_patch
delay_prepare_patch ==
    Members([n \in DocKeys |->
        IF n = "fromStation"
        THEN Members([k \in StationKeys |-> IF k = "realTime" THEN Leaf("late") ELSE Absent])
        ELSE Absent])

InitEdit ==
    /\ trips = [u \in Users |-> {}]
    /\ mode = [u \in Users |-> NATURAL]
    /\ undoView = [u \in Users |-> None]
    /\ lock = [u \in Users |-> FALSE]
    /\ pending = [u \in Users |-> None]
    /\ bench \in [status_patch : StoredPatches, view : {None}]

\* /journey edit: the view holds the trip and the new patch
edit(from_station, departure_delay, comment) ==
    /\ bench.view = None
    /\ LET prepare_patch == edit_prepare_patch(from_station, departure_delay, comment) IN
       bench' = [bench EXCEPT !.view =
                    [seen |-> bench.status_patch,
                     prepare_patch |-> prepare_patch,
                     newpatch |-> edit_newpatch(bench.status_patch, prepare_patch)]]
    /\ UNCHANGED <<trips, mode, undoView, lock, pending>>

\* /journey delay: its patch is merged into the stored one and written
DelayWritten ==
    /\ bench' = [bench EXCEPT !.status_patch = json_patch(@, delay_prepare_patch)]
    /\ UNCHANGED <<trips, mode, undoView, lock, pending>>

\* EditTripView.commit: newpatch is written
commit ==
    /\ bench.view # None
    /\ bench' = [status_patch |-> bench.view.newpatch, view |-> None]
    /\ UNCHANGED <<trips, mode, undoView, lock, pending>>

NextEdit ==
    \/ \E a \in EditArguments : edit(a[1], a[2], a[3])
    \/ DelayWritten
    \/ commit

SpecEdit == InitEdit /\ [][NextEdit]_vars

---------------------------------------------------------------------------
(* fetch_headsign, and the headsign column of table trips.  A row of the    *)
(* table is [user_id, journey_id, headsign, status, patch]; the headsign of *)
(* a row that was never resolved is empty.                                  *)

\* two users who can be checked in to the same ride
Passengers == {"u1", "u2"}

\* the headsign fetch_headsign stores when it resolved nothing
Unknown == "?"

\* the statuses whose headsign is fetched: a ride with a hafas id, which
\* holds a "|", and a ride without one
HafasId(t) == IF t = TrainA THEN <<"1", "|", "a">> ELSE <<>>
Rides ==
    {[train |-> t, fromScheduled |-> s, hafasId |-> HafasId(t)] :
        t \in {TrainA, TrainB}, s \in {14}}

\* the outcomes of hafas.trip(jid).destination.name and of the search by
\* hafas.journeys for the one candidate and its destination
TripOutcomes == {"raise", "Berlin"}
JourneysOutcomes == {"raise", "no_unique_candidate", "Berlin"}

\* SELECT headsign FROM trips WHERE journey_id = ?  .fetchone(): the first
\* row of that journey id, in no defined order, or None
fetchone(table, jid) ==
    IF \E r \in table : r.journey_id = jid
    THEN {r \in table : r.journey_id = jid}
    ELSE {None}

\* UPDATE trips SET headsign = ? WHERE journey_id = ?
update_headsign(table, headsign, jid) ==
    {IF r.journey_id = jid THEN [r EXCEPT !.headsign = headsign] ELSE r : r \in table}

\* what a call of fetch_headsign leaves and answers
Fetched(table, value, lookups, raised) ==
    [table |-> table, value |-> value, lookups |-> lookups, raised |-> raised]

\* a plausible slip: the search is not guarded by try and except
fetch_headsign_unguarded(table, status, cached, trip, journeys) ==
    IF cached # None /\ cached.headsign # ""
    THEN Fetched(table, cached.headsign, {}, FALSE)
    ELSE LET jid == IF status.hafasId # <<>> THEN status.hafasId ELSE status.train
             direct == Contains(jid, <<"|">>)
         IN IF direct /\ trip # "raise"
            THEN Fetched(update_headsign(table, trip, zugid(status)), trip, {"trip"}, FALSE)
            ELSE IF journeys = "raise"
            THEN Fetched(table, "", (IF direct THEN {"trip"} ELSE {}) \cup {"journeys"}, TRUE)
            ELSE LET headsign == IF journeys = "no_unique_candidate" THEN Unknown ELSE journeys
                 IN Fetched(update_headsign(table, headsign, zugid(status)), headsign,
                            (IF direct THEN {"trip"} ELSE {}) \cup {"journeys"}, FALSE)

\* fetch_headsign(database, status), cached being what fetchone answers,
\* trip and journeys the outcomes of the lookups if they are made: the
\* table it leaves, the headsign it returns, the lookups it made, and
\* whether it raised
fetch_headsign(table, status, cached, trip, journeys) ==
    IF cached # None /\ cached.headsign # ""
    THEN Fetched(table, cached.headsign, {}, FALSE)
    ELSE LET jid == IF status.hafasId # <<>> THEN status.hafasId ELSE status.train
             direct == Contains(jid, <<"|">>)
         IN IF direct /\ trip # "raise"
            THEN Fetched(update_headsign(table, trip, zugid(status)), trip, {"trip"}, FALSE)
            ELSE LET headsign == IF journeys \in {"raise", "no_unique_candidate"}
                                 THEN Unknown ELSE journeys
                 IN Fetched(update_headsign(table, headsign, zugid(status)), headsign,
                            (IF direct THEN {"trip"} ELSE {}) \cup {"journeys"}, FALSE)

\* the row Trip.upsert inserts
HeadsignRow(u, status) ==
    [user_id |-> u, journey_id |-> zugid(status), headsign |-> "",
     status |-> status, patch |-> EmptyPatch]

InitHeadsign ==
    /\ trips = [u \in Users |-> {}]
    /\ mode = [u \in Users |-> NATURAL]
    /\ undoView = [u \in Users |-> None]
    /\ lock = [u \in Users |-> FALSE]
    /\ pending = [u \in Users |-> None]
    /\ bench = [table |-> {}]

\* a check-in of passenger u is stored
CheckinStored(u, status) ==
    /\ \A r \in bench.table : ~(r.user_id = u /\ r.journey_id = zugid(status))
    /\ bench' = [table |-> bench.table \cup {HeadsignRow(u, status)}]
    /\ UNCHANGED <<trips, mode, undoView, lock, pending>>

\* an undo deletes the trip of passenger u
TripDeleted(u, status) ==
    /\ \E r \in bench.table : r.user_id = u /\ r.journey_id = zugid(status)
    /\ bench' = [table |-> {r \in bench.table :
                               ~(r.user_id = u /\ r.journey_id = zugid(status))}]
    /\ UNCHANGED <<trips, mode, undoView, lock, pending>>

\* a stored trip is rendered, and its headsign fetched
FetchHeadsign(status, trip, journeys) ==
    /\ \E r \in bench.table : r.journey_id = zugid(status)
    /\ \E cached \in fetchone(bench.table, zugid(status)) :
          bench' = [table |-> fetch_headsign(bench.table, status, cached, trip, journeys).table]
    /\ UNCHANGED <<trips, mode, undoView, lock, pending>>

NextHeadsign ==
    \/ \E u \in Passengers, status \in Rides : CheckinStored(u, status)
    \/ \E u \in Passengers, status \in Rides : TripDeleted(u, status)
    \/ \E status \in Rides, trip \in TripOutcomes, journeys \in JourneysOutcomes :
          FetchHeadsign(status, trip, journeys)

SpecHeadsign == InitHeadsign /\ [][NextHeadsign]_vars

---------------------------------------------------------------------------
(* zugid of two statuses.  A train id is a string of travelynx, and so may *)
(* begin with digits.                                                       *)

ScheduledTimes == {1, 12, 14}
TrainIdStrings == {<<"a">>, <<"2", "a">>, <<"4", "a">>, <<"a", "2">>}

\* the fields zugid reads, and one it does not read
Identified ==
    [train : TrainIdStrings, fromScheduled : ScheduledTimes, checkedIn : BOOLEAN]

InitZugid ==
    /\ trips = [u \in Users |-> {}]
    /\ mode = [u \in Users |-> NATURAL]
    /\ undoView = [u \in Users |-> None]
    /\ lock = [u \in Users |-> FALSE]
    /\ pending = [u \in Users |-> None]
    /\ bench \in [left : Identified, right : Identified, ids : {<<>>}]

\* the journey ids of both statuses are computed
Identify ==
    /\ bench.ids = <<>>
    /\ bench' = [bench EXCEPT !.ids = <<zugid(bench.left), zugid(bench.right)>>]
    /\ UNCHANGED <<trips, mode, undoView, lock, pending>>

NextZugid == Identify

SpecZugid == InitZugid /\ [][NextZugid]_vars

---------------------------------------------------------------------------
(* The handler's loop over the live channels, step by step.  A Message     *)
(* record is [journey_id, channel, id], id telling the records of one trip *)
(* and channel apart.  pending[u] holds the handlers of user u that are    *)
(* suspended in the loop: [task, journey_id, at, sending], task telling    *)
(* the handlers apart and at being the index of the channel they work on.  *)

\* user.find_live_channel_ids()
Channels == <<"c1", "c2">>

\* handlers of one user that can be in the loop at once
MaxHandlers == 2

\* DB.Message.find_all(user, journey_id)
Message_find_all(messages, jid) == {m \in messages : m.journey_id = jid}

\* DB.Message.find(user, journey_id, channel)
Message_find(messages, jid, channel) ==
    {m \in messages : m.journey_id = jid /\ m.channel = channel}

\* DB.Message(journey_id, user, channel, message.id).write(): a new record
Message_write(messages, jid, channel) ==
    messages \cup {[journey_id |-> jid, channel |-> channel,
                    id |-> Cardinality(Message_find(messages, jid, channel)) + 1]}

\* a plausible slip: the handler does not take the user's lock
locked_never(L, u) == FALSE

\* async with user.get_lock(): the request waits while the lock is held
locked(L, u) == L[u]

\* a plausible slip: the lock is released by a call before each return, and
\* an exception leaves it held
release_on_return_only(L, u, exit) ==
    IF exit = "returned" THEN [L EXCEPT ![u] = FALSE] ELSE L

\* the end of async with user.get_lock(): the lock is released however the
\* block is left, by a return or by an exception
release(L, u, exit) == [L EXCEPT ![u] = FALSE]

\* a task number no suspended handler has
FreeTask(handlers) ==
    CHOOSE t \in 1..MaxHandlers : \A h \in handlers : h.task # t

InitMessages ==
    /\ trips = [u \in Users |-> {}]
    /\ mode = [u \in Users |-> NATURAL]
    /\ undoView = [u \in Users |-> None]
    /\ lock = [u \in Users |-> FALSE]
    /\ pending = [u \in Users |-> {}]
    /\ bench = [messages |-> {}]

\* a request of user u: the handler takes the lock and runs up to its loop
\* over the channels, or to its end if it does not publish; an accepted
\* undo deletes the messages of the last trip with the trip
Deliver(u, reason, status) ==
    /\ ~locked(lock, u)
    /\ Cardinality(pending[u]) < MaxHandlers
    /\ \E last \in find_last_trip_for(trips, u) :
        LET o == handler(trips, mode, u, reason, status, last) IN
        /\ Cardinality(o.trips[u]) <= MaxTrips
        /\ trips' = o.trips
        /\ mode' = o.mode
        /\ IF o.resp = "published"
           THEN /\ lock' = [lock EXCEPT ![u] = TRUE]
                /\ pending' = [pending EXCEPT ![u] =
                        @ \cup {[task |-> FreeTask(pending[u]), journey_id |-> zugid(status),
                                 at |-> 1, sending |-> FALSE]}]
                /\ UNCHANGED bench
           ELSE /\ UNCHANGED <<lock, pending>>
                /\ bench' = IF o.resp = "unpublished"
                            THEN [bench EXCEPT !.messages =
                                     @ \ Message_find_all(@, last.journey_id)]
                            ELSE bench
    /\ UNCHANGED undoView

\* the loop looks for the message of the trip in the channel, and awaits
\* the edit of the message it found or the sending of a new one
FindMessage(u, h) ==
    /\ h \in pending[u]
    /\ ~h.sending
    /\ h.at <= Len(Channels)
    /\ pending' = [pending EXCEPT ![u] = (@ \ {h}) \cup
            {IF Message_find(bench.messages, h.journey_id, Channels[h.at]) # {}
             THEN [h EXCEPT !.at = @ + 1]
             ELSE [h EXCEPT !.sending = TRUE]}]
    /\ UNCHANGED <<trips, mode, undoView, lock, bench>>

\* the message is sent: its record is written, and the loop goes on
MessageSent(u, h) ==
    /\ h \in pending[u]
    /\ h.sending
    /\ bench' = [bench EXCEPT !.messages =
                    Message_write(bench.messages, h.journey_id, Channels[h.at])]
    /\ pending' = [pending EXCEPT ![u] =
            (@ \ {h}) \cup {[h EXCEPT !.at = @ + 1, !.sending = FALSE]}]
    /\ UNCHANGED <<trips, mode, undoView, lock>>

\* the loop is over: the handler answers and leaves the lock
Respond(u, h) ==
    /\ h \in pending[u]
    /\ h.at > Len(Channels)
    /\ pending' = [pending EXCEPT ![u] = @ \ {h}]
    /\ lock' = release(lock, u, "returned")
    /\ UNCHANGED <<trips, mode, undoView, bench>>

\* the positions a handler can be suspended at
Handlers ==
    [task : 1..MaxHandlers, journey_id : {zugid(st) : st \in TimetableStatuses},
     at : 1..(Len(Channels) + 1), sending : BOOLEAN]

NextMessages ==
    \/ \E u \in Users, ev \in Events : Deliver(u, ev[1], ev[2])
    \/ \E u \in Users, h \in Handlers : FindMessage(u, h)
    \/ \E u \in Users, h \in Handlers : MessageSent(u, h)
    \/ \E u \in Users, h \in Handlers : Respond(u, h)

SpecMessages == InitMessages /\ [][NextMessages]_vars

---------------------------------------------------------------------------
(* The requests that wait for the lock *)

\* how many requests of one user wait for the lock at most
MaxWaiting == 2

Tickets == 1..(MaxWaiting + 1)

\* the requests of user u that wait for the lock, the first to arrive first
waiting(u) == bench.waiting[u]

\* a number no request of user u has, be it waiting or in the handler
FreeTicket(u) ==
    CHOOSE t \in Tickets :
        /\ \A i \in 1..Len(waiting(u)) : waiting(u)[i] # t
        /\ \A h \in pending[u] : h.task # t

InitQueue ==
    /\ trips = [u \in Users |-> {}]
    /\ mode = [u \in Users |-> NATURAL]
    /\ undoView = [u \in Users |-> None]
    /\ lock = [u \in Users |-> FALSE]
    /\ pending = [u \in Users |-> {}]
    /\ bench = [messages |-> {}, waiting |-> [u \in Users |-> <<>>]]

\* a request of user u arrives at async with user.get_lock() and waits
Arrive(u) ==
    /\ Len(waiting(u)) < MaxWaiting
    /\ bench' = [bench EXCEPT !.waiting[u] = Append(@, FreeTicket(u))]
    /\ UNCHANGED <<trips, mode, undoView, lock, pending>>

\* how the handler leaves the block when it does not publish
Exit(resp) == IF resp = "error" THEN "raised" ELSE "returned"

\* the request that waited longest takes the free lock, reads its body and
\* runs up to the loop over the channels, or to its end if it does not
\* publish: then it leaves the lock at once
Acquire(u, reason, status) ==
    /\ ~locked(lock, u)
    /\ waiting(u) # <<>>
    /\ \E last \in find_last_trip_for(trips, u) :
        LET o == handler(trips, mode, u, reason, status, last)
            held == [lock EXCEPT ![u] = TRUE]
        IN
        /\ Cardinality(o.trips[u]) <= MaxTrips
        /\ trips' = o.trips
        /\ mode' = o.mode
        /\ IF o.resp = "published"
           THEN /\ lock' = held
                /\ pending' = [pending EXCEPT ![u] =
                        @ \cup {[task |-> Head(waiting(u)), journey_id |-> zugid(status),
                                 at |-> 1, sending |-> FALSE]}]
                /\ bench' = [bench EXCEPT !.waiting[u] = Tail(@)]
           ELSE /\ lock' = release(held, u, Exit(o.resp))
                /\ UNCHANGED pending
                /\ bench' = [bench EXCEPT
                        !.waiting[u] = Tail(@),
                        !.messages = IF o.resp = "unpublished"
                                     THEN @ \ Message_find_all(@, last.journey_id)
                                     ELSE @]
    /\ UNCHANGED undoView

\* the loop over the channels raises: current_trips[-1] while the current
\* journey is empty, or .index() of a journey id that is not in it
Raise(u, h) ==
    /\ h \in pending[u]
    /\ ~h.sending
    /\ h.at <= Len(Channels)
    /\ h.journey_id \notin {r.journey_id : r \in find_current_trips_for(trips, u)}
    /\ pending' = [pending EXCEPT ![u] = @ \ {h}]
    /\ lock' = release(lock, u, "raised")
    /\ UNCHANGED <<trips, mode, undoView, bench>>

\* the positions a handler of a request that waited can be suspended at
QueuedHandlers ==
    [task : Tickets, journey_id : {zugid(st) : st \in TimetableStatuses},
     at : 1..(Len(Channels) + 1), sending : BOOLEAN]

\* a step of the handler that holds the lock
Step ==
    \E u \in Users, h \in QueuedHandlers :
        FindMessage(u, h) \/ MessageSent(u, h) \/ Respond(u, h) \/ Raise(u, h)

\* the last ride of train A or of train B
LastRide(st) ==
    /\ st.train \in {TrainA, TrainB}
    /\ \A d \in Departures(st.train) : d <= st.fromScheduled

\* the bodies of the requests that wait: the events of the last rides
QueuedEvents == {ev \in Events : LastRide(ev[2])}

\* the lock passes to the request that waited longest
Handover == \E u \in Users, ev \in QueuedEvents : Acquire(u, ev[1], ev[2])

NextQueue ==
    \/ \E u \in Users : Arrive(u)
    \/ Handover
    \/ \E u \in Users, h \in QueuedHandlers : FindMessage(u, h)
    \/ \E u \in Users, h \in QueuedHandlers : MessageSent(u, h)
    \/ \E u \in Users, h \in QueuedHandlers : Respond(u, h)
    \/ \E u \in Users, h \in QueuedHandlers : Raise(u, h)

SpecQueue == InitQueue /\ [][NextQueue]_vars

\* the event loop runs every task that can run, so a handler whose awaited
\* calls end goes on; asyncio.Lock wakes the request that waited longest
SpecQueueFair == SpecQueue /\ WF_vars(Step) /\ WF_vars(Handover)

---------------------------------------------------------------------------
(* Properties of the segmentation.  They speak of every call                *)
(* handle_status_update(u, reason, status) that the handler or /zug can     *)
(* make in a reachable state, last being an answer of find_last_trip_for    *)
(* there.                                                                   *)

\* the statuses with which the handler calls handle_status_update for an
\* event of this reason: public, with a destination, and checked in if the
\* reason is ping or undo
HandlerCallStatuses ==
    [reason \in KnownReasons |->
        {st \in TimetableStatuses :
            /\ st.toName # ""
            /\ st.visibility = "public"
            /\ reason \in {"ping", "undo"} => st.checkedIn}]

\* the statuses with which /zug calls handle_status_update, as an update
ZugCallStatuses ==
    {st \in ApiStatuses : st.checkedIn /\ st.visibility # "private"}

\* the statuses handle_status_update is called with, by reason
CallStatuses ==
    [reason \in KnownReasons |->
        HandlerCallStatuses[reason]
            \cup (IF reason = "update" THEN ZugCallStatuses ELSE {})]

\* the journey ids of the current journey
CurrentIds(T, u) == {r.journey_id : r \in find_current_trips_for(T, u)}

\* the call keeps every trip of the current journey in it: no journey break
KeepsJourney(T, u, h) == ~h.broke /\ CurrentIds(T, u) \subseteq CurrentIds(h.trips, u)

\* the call can be a step of the model: a public event with a destination,
\* whose result is within the bound
Storable(u, status, h) ==
    /\ status.visibility = "public"
    /\ status.toName # ""
    /\ Cardinality(h.trips[u]) <= MaxTrips

\* C1: when the incoming status has the train id of the user's last stored
\* trip, handle_status_update does not break the journey, whatever the
\* reason, the break mode, the distance and the gap: the trips of the
\* current journey stay in it.
C1_SameTrainNeverBreaks ==
    \A u \in Users, reason \in KnownReasons :
        \A status \in CallStatuses[reason], last \in find_last_trip_for(trips, u) :
            (last # None /\ Effective(last).train = status.train)
                => KeepsJourney(trips, u,
                       handle_status_update(trips, mode, u, reason, status, last))

\* C1, the case: break mode FORCE_BREAK, and a check-in for a later ride of
\* the last trip's train, three hours and three kilometres after it; the
\* old trip and the new one are in one journey.
C1_Witness ==
    \E u \in Users, status \in TimetableStatuses :
        \E last \in find_last_trip_for(trips, u) :
            /\ last # None
            /\ Effective(last).train = status.train
            /\ zugid(status) # last.journey_id
            /\ status.checkedIn
            /\ mode[u] = FORCE_BREAK
            /\ ~last.sealed
            /\ haversine(Effective(last).toLat, status.fromLat) > BreakDistance
            /\ status.fromReal - Effective(last).toReal > BreakHours
            /\ LET h == handle_status_update(trips, mode, u, "checkin", status, last) IN
                /\ Storable(u, status, h)
                /\ {last.journey_id, zugid(status)} \subseteq CurrentIds(h.trips, u)

\* C2: a checkout whose train id is the train id of a trip of the current
\* journey does not break the journey, whatever the last stored trip is.
C2_CheckoutOfCurrentTrainNeverBreaks ==
    \A u \in Users, status \in CallStatuses["checkout"] :
        \A last \in find_last_trip_for(trips, u) :
            status.train \in {Effective(r).train : r \in find_current_trips_for(trips, u)}
                => KeepsJourney(trips, u,
                       handle_status_update(trips, mode, u, "checkout", status, last))

\* C2, the case: the last stored trip is a later check-in for another train,
\* more than 2 km away from the departure of the train checked out of, and
\* the break mode is natural.
C2_Witness ==
    \E u \in Users, status \in TimetableStatuses :
        \E last \in find_last_trip_for(trips, u) :
            /\ last # None
            /\ status.train \in {Effective(r).train : r \in find_current_trips_for(trips, u)}
            /\ Effective(last).train # status.train
            /\ Effective(last).checkedIn
            /\ FromTime(last) > status.fromReal
            /\ ~status.checkedIn
            /\ mode[u] = NATURAL
            /\ NaturalBreak(Effective(last), status)
            /\ LET h == handle_status_update(trips, mode, u, "checkout", status, last) IN
                /\ Storable(u, status, h)
                /\ CurrentIds(h.trips, u) = CurrentIds(trips, u)
                /\ Cardinality(CurrentIds(trips, u)) = 2

\* neither rule 1 nor rule 2 decides the call, and there is a last trip
ReachesBreakMode(u, reason, status, last) ==
    /\ last # None
    /\ ~CheckoutOfCurrentTrain(trips, u, reason, status)
    /\ Effective(last).train # status.train

\* a trip made by manualtrip
Synthetic(status) == Contains(status.train, Marker)

NaturalCase(synthetic, km, hours, broke) ==
    \E u \in Users, status \in TimetableStatuses :
        \E last \in find_last_trip_for(trips, u) :
            /\ mode[u] = NATURAL
            /\ ReachesBreakMode(u, "checkin", status, last)
            /\ status.checkedIn
            /\ (Synthetic(status) \/ Synthetic(Effective(last))) = synthetic
            /\ haversine(Effective(last).toLat, status.fromLat) = km
            /\ status.fromReal - Effective(last).toReal = hours
            /\ LET h == handle_status_update(trips, mode, u, "checkin", status, last) IN
                /\ Storable(u, status, h)
                /\ h.broke = broke

C4_ForceBreak ==
    \A u \in Users, reason \in KnownReasons :
        \A status \in CallStatuses[reason], last \in find_last_trip_for(trips, u) :
            (mode[u] = FORCE_BREAK /\ ReachesBreakMode(u, reason, status, last))
                => LET h == handle_status_update(trips, mode, u, reason, status, last) IN
                   /\ h.broke
                   /\ CurrentIds(h.trips, u) \subseteq {zugid(status)}
                   /\ h.mode[u] = NATURAL

\* C4, the case: a check-in that the natural rule would take for a transfer
\* (exactly 2 km on, no waiting) starts a new journey.
C4_Witness ==
    \E u \in Users, status \in TimetableStatuses :
        \E last \in find_last_trip_for(trips, u) :
            /\ mode[u] = FORCE_BREAK
            /\ ReachesBreakMode(u, "checkin", status, last)
            /\ status.checkedIn
            /\ ~last.sealed
            /\ ~NaturalBreak(Effective(last), status)
            /\ LET h == handle_status_update(trips, mode, u, "checkin", status, last) IN
                /\ Storable(u, status, h)
                /\ CurrentIds(h.trips, u) = {zugid(status)}
                /\ h.mode[u] = NATURAL

\* C5: in break mode FORCE_GLUE, with a last trip whose train id differs from
\* the incoming one and the event no checkout of a train of the current
\* journey, the journey is not broken, whatever the distance and the gap:
\* the trips of the current journey stay in it, a trip stored for the first
\* time joins them, and the break mode is NATURAL afterwards.
C5_ForceGlue ==
    \A u \in Users, reason \in KnownReasons :
        \A status \in CallStatuses[reason], last \in find_last_trip_for(trips, u) :
            (mode[u] = FORCE_GLUE /\ ReachesBreakMode(u, reason, status, last))
                => LET h == handle_status_update(trips, mode, u, reason, status, last) IN
                   /\ KeepsJourney(trips, u, h)
                   /\ find(trips, u, zugid(status)) = None
                        => CurrentIds(h.trips, u) = CurrentIds(trips, u) \cup {zugid(status)}
                   /\ h.mode[u] = NATURAL

\* C5, the case: a check-in for another train, more than 2 hours after and
\* more than 2 km from the last trip, neither of them synthetic.
C5_Witness ==
    \E u \in Users, status \in TimetableStatuses :
        \E last \in find_last_trip_for(trips, u) :
            /\ mode[u] = FORCE_GLUE
            /\ ReachesBreakMode(u, "checkin", status, last)
            /\ status.checkedIn
            /\ ~last.sealed
            /\ ~Synthetic(status) /\ ~Synthetic(Effective(last))
            /\ haversine(Effective(last).toLat, status.fromLat) > BreakDistance
            /\ status.fromReal - Effective(last).toReal > BreakHours
            /\ LET h == handle_status_update(trips, mode, u, "checkin", status, last) IN
                /\ Storable(u, status, h)
                /\ CurrentIds(h.trips, u) = {last.journey_id, zugid(status)}
                /\ h.mode[u] = NATURAL

\* C6: an event with the train id of the last trip breaks nothing and
\* leaves the break mode as it is, forced or not; a call changes the break
\* mode only if there is a last trip and its train id differs from the
\* incoming one.
C6_SameTrainKeepsBreakMode ==
    \A u \in Users, reason \in KnownReasons :
        \A status \in CallStatuses[reason], last \in find_last_trip_for(trips, u) :
            LET h == handle_status_update(trips, mode, u, reason, status, last) IN
            /\ (last # None /\ Effective(last).train = status.train)
                    => ~h.broke /\ h.mode = mode
            /\ h.mode # mode
                    => last # None /\ Effective(last).train # status.train

\* C6, the case: break mode FORCE_GLUE and a check-in for a later ride of
\* the last trip's train; the mode is FORCE_GLUE afterwards.
C6_Witness ==
    \E u \in Users, status \in TimetableStatuses :
        \E last \in find_last_trip_for(trips, u) :
            /\ last # None
            /\ Effective(last).train = status.train
            /\ zugid(status) # last.journey_id
            /\ status.checkedIn
            /\ mode[u] = FORCE_GLUE
            /\ LET h == handle_status_update(trips, mode, u, "checkin", status, last) IN
                /\ Storable(u, status, h)
                /\ ~h.broke
                /\ h.mode[u] = FORCE_GLUE

---------------------------------------------------------------------------
(* Properties of the handler.  They speak of every event that can be       *)
(* delivered in a reachable state.                                          *)

\* C7: once the handler has handled a check-in (public, with a
\* destination), the user's break mode is NATURAL, whatever it was set to
\* before.
C7_BreakModeNaturalAfterCheckin ==
    \A u \in Users, status \in TimetableStatuses :
        \A last \in find_last_trip_for(trips, u) :
            (status.checkedIn /\ status.visibility = "public" /\ status.toName # "")
                => handler(trips, mode, u, "checkin", status, last).mode[u] = NATURAL

\* the statuses with which an undo event reaches the handler's undo branch
UndoStatuses == {st \in TimetableStatuses : ~st.checkedIn /\ st.toName # ""}

\* C8, as stated: an undo event deletes the user's last trip only when that
\* stored trip is checked out; when it is still checked in, the undo is
\* rejected with a message and no trip is deleted.
C8_UndoDeletesOnlyCheckedOutTrip ==
    \A u \in Users, status \in UndoStatuses :
        \A last \in find_last_trip_for(trips, u) :
            last # None =>
                LET o == handler(trips, mode, u, "undo", status, last) IN
                /\ o.trips # trips => ~Effective(last).checkedIn
                /\ Effective(last).checkedIn
                        => o.resp = "not_unpublishing" /\ o.trips = trips

\* C8, amended: an undo event deletes the user's last trip, and nothing
\* else, only when that stored trip is still checked in; when it is already
\* checked out, the undo is rejected with a message and no trip is deleted;
\* without a stored trip nothing is deleted either.  The break mode stays.
C8_UndoDeletesOnlyCheckedInTrip ==
    \A u \in Users, status \in UndoStatuses :
        \A last \in find_last_trip_for(trips, u) :
            LET o == handler(trips, mode, u, "undo", status, last) IN
            /\ o.mode = mode
            /\ IF last # None /\ Effective(last).checkedIn
               THEN /\ o.resp = "unpublished"
                    /\ o.trips = [trips EXCEPT ![u] = @ \ {last}]
               ELSE /\ o.trips = trips
                    /\ o.resp = IF last = None THEN "error" ELSE "not_unpublishing"

\* C8, the cases: the last of two stored trips is checked in and an undo
\* deletes it, the other trip stays; and, in the same state, that other
\* trip is checked out, so that an undo after the first one is rejected.
C8_Witness ==
    \E u \in Users, status \in UndoStatuses :
        \E last \in find_last_trip_for(trips, u) :
            /\ last # None
            /\ Effective(last).checkedIn
            /\ Cardinality(trips[u]) = 2
            /\ LET o == handler(trips, mode, u, "undo", status, last) IN
                /\ o.resp = "unpublished"
                /\ o.trips[u] = trips[u] \ {last}
                /\ \A last2 \in find_last_trip_for(o.trips, u) :
                    /\ ~Effective(last2).checkedIn
                    /\ handler(o.trips, o.mode, u, "undo", status, last2).resp
                            = "not_unpublishing"

\* the private events the handler processes
PrivateEvents ==
    { <<reason, st>> : reason \in {"checkin", "update", "checkout"},
                       st \in {x \in TimetableStatuses :
                                 x.visibility = "private" /\ x.toName # ""} }

\* C9: after the handler has processed a private checkin, update or checkout
\* event (one with a destination), no trip with the event's journey id is
\* stored for the user, every other trip is stored as before, the break
\* mode is unchanged and handle_status_update was not run.
C9_PrivateScrub ==
    \A u \in Users, ev \in PrivateEvents :
        \A last \in find_last_trip_for(trips, u) :
            LET o == handler(trips, mode, u, ev[1], ev[2], last) IN
            /\ find(o.trips, u, zugid(ev[2])) = None
            /\ o.trips[u] = {r \in trips[u] : r.journey_id # zugid(ev[2])}
            /\ \A v \in Users \ {u} : o.trips[v] = trips[v]
            /\ o.mode = mode
            /\ o.resp = "not_publishing"
            /\ o.rule = "none" /\ ~o.broke

\* C9, the case: a trip stored from a public event, with a patch, and
\* another trip; a private update for the first deletes it and leaves the
\* other.
C9_Witness ==
    \E u \in Users, ev \in PrivateEvents :
        \E last \in find_last_trip_for(trips, u) :
            /\ ev[1] = "update"
            /\ find(trips, u, zugid(ev[2])) # None
            /\ find(trips, u, zugid(ev[2])).status.visibility = "public"
            /\ find(trips, u, zugid(ev[2])).patch # EmptyPatch
            /\ Cardinality(trips[u]) = 2
            /\ LET o == handler(trips, mode, u, ev[1], ev[2], last) IN
                /\ Cardinality(o.trips[u]) = 1
                /\ find(o.trips, u, zugid(ev[2])) = None

\* what is stored of the trips of user u: journey id, raw status and patch
Rows(T, u) ==
    {[journey_id |-> r.journey_id, status |-> r.status, patch |-> r.patch] : r \in T[u]}

---------------------------------------------------------------------------
(* Properties of the handler's validation *)

\* C12: an event of reason ping whose status is not checked in changes no
\* stored state: the trips, their patches and the break modes are as before,
\* handle_status_update is not run, and the answer is the connection
\* greeting; this holds of every such event, also of one without a
\* destination and of a private one, which the later validation and the
\* scrubbing never see.
C12_PingIsNoOp ==
    \A u \in Users, status \in TimetableStatuses :
        \A last \in find_last_trip_for(trips, u) :
            ~status.checkedIn
                => handler(trips, mode, u, "ping", status, last)
                       = Answer(trips, mode, "connected")

\* C12, the case: a ping without destination, of a private status whose
\* trip is stored, while a break is forced.
C12_Witness ==
    \E u \in Users, ev \in Events :
        \E last \in find_last_trip_for(trips, u) :
            /\ ev[1] = "ping"
            /\ ~ev[2].checkedIn
            /\ ev[2].toName = ""
            /\ ev[2].visibility = "private"
            /\ find(trips, u, zugid(ev[2])) # None
            /\ mode[u] = FORCE_BREAK
            /\ handler(trips, mode, u, "ping", ev[2], last).resp = "connected"

C14_NoEventRaises ==
    \A u \in Users, ev \in Events :
        \A last \in find_last_trip_for(trips, u) :
            WellFormed(ev[1], ev[2])
                => handler(trips, mode, u, ev[1], ev[2], last).resp # "error"

---------------------------------------------------------------------------
(* Properties of the locking *)

\* C11: while a handler is suspended between reading the user's last trip
\* and deleting it, no other operation changes the user's trips: they are
\* the trips the handler has seen.
C11_SuspendedHandlerFindsTripsUnchanged ==
    \A u \in Users : pending[u] # None => trips[u] = pending[u].seen

---------------------------------------------------------------------------
(* Properties of the trips' life cycle *)

\* the journey ids of the open trips of the current journey: those whose
\* status says checked in
OpenIds(T, u) ==
    {r.journey_id : r \in {q \in find_current_trips_for(T, u) : Effective(q).checkedIn}}

\* C15, as claimed: in every reachable state at most one trip of each
\* user's current journey is checked in.
C15_AtMostOneOpenTrip ==
    \A u \in Users : Cardinality(OpenIds(trips, u)) <= 1

\* C15, amended: handle_status_update opens no trip but the one of its
\* status: the open trips of the current journey after the call are among
\* those open before and the trip of the incoming status, which is open only
\* if the status is checked in.  Hence one event adds at most one open trip.
C15_EventOpensOnlyItsTrip ==
    \A u \in Users, reason \in KnownReasons :
        \A status \in CallStatuses[reason], last \in find_last_trip_for(trips, u) :
            LET h == handle_status_update(trips, mode, u, reason, status, last) IN
            /\ OpenIds(h.trips, u) \subseteq OpenIds(trips, u) \cup {zugid(status)}
            /\ zugid(status) \in OpenIds(h.trips, u) => status.checkedIn

\* C15, the case: a check-in for another train arrives while the last trip
\* is open, without a journey break; both trips are then open in the
\* current journey.
C15_Witness ==
    \E u \in Users, status \in CallStatuses["checkin"] :
        \E last \in find_last_trip_for(trips, u) :
            /\ last # None
            /\ OpenIds(trips, u) = {last.journey_id}
            /\ zugid(status) # last.journey_id
            /\ LET h == handle_status_update(trips, mode, u, "checkin", status, last) IN
                /\ Storable(u, status, h)
                /\ ~h.broke
                /\ OpenIds(h.trips, u) = {last.journey_id, zugid(status)}

\* C16, as claimed: once a stored trip is checked out, no step makes the
\* trip of its journey id checked in again.
C16_ClosedTripStaysClosed ==
    [][\A u \in Users : \A r \in trips[u] :
          ~r.status.checkedIn
              => \A q \in trips'[u] :
                     q.journey_id = r.journey_id => ~q.status.checkedIn]_vars

\* C16, amended: the stored trip follows the incoming statuses.  After
\* handle_status_update the trip of the incoming status is stored, checked
\* in exactly if the status is: a checkout keeps the row, checked out, and a
\* later checked-in status of the same journey id opens it again.  Every
\* other trip stays stored with its raw status and its patch.
C16_TripFollowsStatus ==
    \A u \in Users, reason \in KnownReasons :
        \A status \in CallStatuses[reason], last \in find_last_trip_for(trips, u) :
            LET h == handle_status_update(trips, mode, u, reason, status, last)
                row == find(h.trips, u, zugid(status))
            IN /\ row # None
               /\ get_unpatched_status(row).checkedIn = status.checkedIn
               /\ \A r \in trips[u] :
                     r.journey_id # zugid(status)
                         => \E q \in h.trips[u] :
                                /\ q.journey_id = r.journey_id
                                /\ q.status = r.status
                                /\ q.patch = r.patch

\* C16, the case: the trip is stored checked out along with another trip,
\* and an update with a checked-in status of its journey id arrives; the
\* trip is open again.  And a trip is stored open, and its checkout arrives:
\* the row is kept, checked out.
C16_Witness ==
    \E u \in Users, status \in CallStatuses["update"], out \in CallStatuses["checkout"] :
        \E last \in find_last_trip_for(trips, u) :
            LET old == find(trips, u, zugid(status))
                h == handle_status_update(trips, mode, u, "update", status, last)
                open == find(trips, u, zugid(out))
                c == handle_status_update(trips, mode, u, "checkout", out, last)
            IN /\ old # None
               /\ ~old.status.checkedIn
               /\ status.checkedIn
               /\ Storable(u, status, h)
               /\ find(h.trips, u, zugid(status)).status.checkedIn
               /\ open # None
               /\ open.status.checkedIn
               /\ Storable(u, out, c)
               /\ ~find(c.trips, u, zugid(out)).status.checkedIn

---------------------------------------------------------------------------
(* Properties of the patches *)

\* the raw status of each journey id stored for u
RawOf(T, u) == {<<r.journey_id, get_unpatched_status(r)>> : r \in T[u]}

\* C17: /journey delay changes no raw status.  Its write_patch changes only
\* the patch of the last trip; the mocked event it posts carries the
\* unpatched status, so that the handler stores the same raw status again
\* and keeps the patch; before and after, get_unpatched_status answers the
\* same document for every trip, and the effective status of the patched
\* trip is its raw status with the fields of the stored patch in place of
\* the raw ones.
C17_PatchLeavesRawStatus ==
    \A u \in Users, a \in DelayArguments :
        \A trip \in find_last_trip_for(trips, u) :
            trip # None
                => LET newpatch == delay_newpatch(trip, a[1], a[2])
                       T1 == delay_write(trips, u, trip, a[1], a[2])
                   IN /\ RawOf(T1, u) = RawOf(trips, u)
                      /\ \A r \in trips[u] \ {trip} : r \in T1[u]
                      /\ find(T1, u, trip.journey_id).patch = newpatch
                      /\ \A last \in find_last_trip_for(T1, u) :
                            LET o == delay_post(T1, mode, u, trip, last)
                                row == find(o.trips, u, trip.journey_id)
                            IN /\ RawOf(o.trips, u) = RawOf(trips, u)
                               /\ row.patch = newpatch
                               /\ \A k \in DOMAIN row.status :
                                     Effective(row)[k] = IF k \in DOMAIN newpatch
                                                         THEN newpatch[k]
                                                         ELSE get_unpatched_status(row)[k]

\* C17, the case: the last trip is stored along with another one, its patch
\* delays the arrival, so that the effective status differs from the raw
\* one, and /journey delay has written the patch and posted the event.
C17_Witness ==
    \E u \in Users, a \in DelayArguments :
        \E trip \in find_last_trip_for(trips, u) :
            /\ trip # None
            /\ Cardinality(trips[u]) = 2
            /\ trip.patch = delay_newpatch(trip, a[1], a[2])
            /\ Effective(trip).toReal # get_unpatched_status(trip).toReal
            /\ \E last \in find_last_trip_for(trips, u) :
                  delay_post(trips, mode, u, trip, last).trips = trips

\* the status shown before the edit, with the prepared patch applied to it
AppliedInTurn(raw, first, second) == json_patch(json_patch(raw, first), second)

\* C18: applying the prepared patch to the raw status patched with the
\* stored patch gives what /journey edit renders, the raw status patched
\* once with the merge of the two patches.
C18_PatchAssociative ==
    (bench # None /\ bench.newpatched_status # None)
        => bench.newpatched_status
               = AppliedInTurn(bench.travelynx_status, bench.status_patch, bench.prepare_patch)

\* a document without null
RECURSIVE NullFree(_)
NullFree(d) ==
    /\ d.k # "null"
    /\ d.k = "obj" => \A n \in DOMAIN d.m : NullFree(d.m[n])

\* the fields a patch sets: the paths to its members that are no objects
\* with members
RECURSIVE Fields(_)
Fields(d) ==
    UNION { IF d.m[n].k = "obj" /\ DOMAIN d.m[n].m # {}
            THEN {<<n>> \o p : p \in Fields(d.m[n])}
            ELSE {<<n>>} : n \in DOMAIN d.m }

IsPrefix(p, q) == Len(p) <= Len(q) /\ SubSeq(q, 1, Len(p)) = p

\* the patches set disjoint fields: no field of one is a field of the other
\* or lies within one
Disjoint(a, b) ==
    \A p \in Fields(a), q \in Fields(b) : ~IsPrefix(p, q) /\ ~IsPrefix(q, p)

\* C19: when the stored patch and the prepared patch set disjoint fields,
\* what /journey edit renders, the raw status patched with the merge of the
\* two patches, is the raw status patched with one and then with the other,
\* in either order.
C19_DisjointPatchesCommute ==
    (bench # None /\ bench.newpatched_status # None)
        => LET raw == bench.travelynx_status
               a == bench.status_patch
               b == bench.prepare_patch
           IN (NullFree(b) /\ Disjoint(a, b))
                  => /\ bench.newpatched_status = AppliedInTurn(raw, a, b)
                     /\ bench.newpatched_status = AppliedInTurn(raw, b, a)

\* C19, the case: the stored patch sets fromStation.name, the prepared one
\* fromStation.realTime, the raw status has both, and /journey edit has
\* rendered the status: it has the name of the one and the time of the other.
C19_Witness ==
    /\ bench # None
    /\ bench.newpatched_status # None
    /\ Fields(bench.status_patch) = {<<"fromStation", "name">>}
    /\ Fields(bench.prepare_patch) = {<<"fromStation", "realTime">>}
    /\ NullFree(bench.prepare_patch)
    /\ Fields(bench.travelynx_status) = {<<"fromStation", "name">>, <<"fromStation", "realTime">>}
    /\ bench.newpatched_status =
           Obj([n \in {"fromStation"} |->
                  Obj([name |-> Leaf("old"), realTime |-> Leaf("new")])])

---------------------------------------------------------------------------
(* Undo and re-delivery *)

\* C20: after an undo event has deleted the user's last trip, the check-in
\* event of that trip, delivered again with the trip's raw status, stores a
\* trip of the same journey id with that raw status and the empty patch,
\* whatever patch the deleted trip had.
C20_UndoThenRedeliver ==
    \A u \in Users, status \in UndoStatuses :
        \A last \in find_last_trip_for(trips, u) :
            (/\ last # None
             /\ Effective(last).checkedIn
             /\ WellFormed("checkin", get_unpatched_status(last)))
                => LET o == handler(trips, mode, u, "undo", status, last)
                       original == get_unpatched_status(last)
                   IN /\ o.resp = "unpublished"
                      /\ find(o.trips, u, last.journey_id) = None
                      /\ \A last2 \in find_last_trip_for(o.trips, u) :
                            LET r == handler(o.trips, o.mode, u, "checkin", original, last2)
                                row == find(r.trips, u, last.journey_id)
                            IN /\ r.resp = "published"
                               /\ row # None
                               /\ row.journey_id = zugid(original)
                               /\ get_unpatched_status(row) = original
                               /\ row.patch = EmptyPatch

\* C20, the case: the last of two stored trips is checked in and has a
\* patch that delays its arrival; the undo deletes it, and the check-in
\* delivered again stores it without the patch.
C20_Witness ==
    \E u \in Users, status \in UndoStatuses :
        \E last \in find_last_trip_for(trips, u) :
            /\ last # None
            /\ Effective(last).checkedIn
            /\ WellFormed("checkin", get_unpatched_status(last))
            /\ Cardinality(trips[u]) = 2
            /\ last.patch # EmptyPatch
            /\ Effective(last).toReal # get_unpatched_status(last).toReal
            /\ LET o == handler(trips, mode, u, "undo", status, last) IN
                /\ Cardinality(o.trips[u]) = 1
                /\ \E last2 \in find_last_trip_for(o.trips, u) :
                      LET r == handler(o.trips, o.mode, u, "checkin",
                                       get_unpatched_status(last), last2)
                      IN /\ Cardinality(r.trips[u]) = 2
                         /\ find(r.trips, u, last.journey_id).patch = EmptyPatch
                         /\ Effective(find(r.trips, u, last.journey_id)).toReal
                                = get_unpatched_status(last).toReal

---------------------------------------------------------------------------
(* Segmentation and stored journey ids *)

\* C21: an event whose journey id is already stored for the user never
\* breaks the journey and never changes the break mode.
C21_StoredIdSkipsSegmentation ==
    \A u \in Users, reason \in KnownReasons :
        \A status \in CallStatuses[reason], last \in find_last_trip_for(trips, u) :
            find(trips, u, zugid(status)) # None
                => LET h == handle_status_update(trips, mode, u, reason, status, last) IN
                    /\ ~h.broke
                    /\ h.mode = mode

\* the status as the corrections leave it in the store
Corrected(status) == maybe_fix_1970(NewRow(status)).status

\* C22: the segmentation decision for an event is the decision for the
\* corrected status of its trip: the corrections come before the decision,
\* which never reads a sentinel value of the trip being written.
C22_SegmentationReadsCorrected ==
    \A u \in Users, ev \in SentinelEvents :
        \A last \in find_last_trip_for(trips, u) :
            last # None
                => Decision(trips, mode, u, ev[1], ev[2], last).brk
                     = Decision(trips, mode, u, ev[1], Corrected(ev[2]), last).brk

---------------------------------------------------------------------------
(* The headsign column *)

\* the rows of a journey id, of whatever user
RowsOf(table, jid) == {r \in table : r.journey_id = jid}

\* the rows of a user
RowsFor(table, u) == {r \in table : r.user_id = u}

\* a row without its headsign
Persisted(r) ==
    [user_id |-> r.user_id, journey_id |-> r.journey_id,
     status |-> r.status, patch |-> r.patch]

\* C23: once a non-empty headsign is stored for a journey id, a fetch for a
\* status of that journey id returns a stored value, makes no lookup and
\* leaves the table as it was.
C23_StoredHeadsignIsKept ==
    \A status \in Rides :
        (\E r \in RowsOf(bench.table, zugid(status)) : r.headsign # "")
            => \A cached \in fetchone(bench.table, zugid(status)) :
                 \A trip \in TripOutcomes, journeys \in JourneysOutcomes :
                    LET o == fetch_headsign(bench.table, status, cached, trip, journeys) IN
                        /\ o.lookups = {}
                        /\ \E r \in RowsOf(bench.table, zugid(status)) :
                              r.headsign # "" /\ o.value = r.headsign
                        /\ o.table = bench.table

\* C24: a journey id left with the headsign of a failed lookup is looked up
\* again by the next fetch, and a lookup that then succeeds replaces it.
C24_FailedLookupIsRetried ==
    \A status \in Rides :
        (/\ RowsOf(bench.table, zugid(status)) # {}
         /\ \A r \in RowsOf(bench.table, zugid(status)) : r.headsign = Unknown)
            => \A cached \in fetchone(bench.table, zugid(status)) :
                 \A trip \in TripOutcomes, journeys \in JourneysOutcomes :
                    LET o == fetch_headsign(bench.table, status, cached, trip, journeys) IN
                        /\ o.lookups # {}
                        /\ journeys = "Berlin" => o.value = "Berlin"

\* C25: whatever the lookups do, fetch_headsign raises nothing and returns
\* a headsign, "?" when every lookup it made failed, and the user, journey
\* id, status and patch of every row are as they were.
C25_LookupFailureContained ==
    \A status \in Rides :
        \A cached \in fetchone(bench.table, zugid(status)) :
            \A trip \in TripOutcomes, journeys \in JourneysOutcomes :
                LET o == fetch_headsign(bench.table, status, cached, trip, journeys) IN
                    /\ ~o.raised
                    /\ o.value # ""
                    /\ (/\ o.lookups # {}
                        /\ "trip" \in o.lookups => trip = "raise"
                        /\ journeys \in {"raise", "no_unique_candidate"})
                          => o.value = Unknown
                    /\ {Persisted(r) : r \in o.table} = {Persisted(r) : r \in bench.table}
                    /\ Cardinality(o.table) = Cardinality(bench.table)

\* C25, the case: the trip of a ride with a hafas id is stored and has no
\* headsign, both lookups raise, and the fetch returns "?".
C25_Witness ==
    \E status \in Rides :
        \E cached \in fetchone(bench.table, zugid(status)) :
            /\ cached # None
            /\ cached.headsign = ""
            /\ Contains(status.hafasId, <<"|">>)
            /\ LET o == fetch_headsign(bench.table, status, cached, "raise", "raise") IN
                /\ o.lookups = {"trip", "journeys"}
                /\ o.value = Unknown
                /\ ~o.raised
                /\ [table |-> o.table] # bench

\* C27: the fetch of the headsign of a trip of one user leaves the rows of
\* every other user as they were, their headsign included, also when both
\* are checked in to the same ride.
C27_FetchLeavesOtherUsers ==
    \A a \in Passengers, status \in Rides :
        (\E r \in RowsFor(bench.table, a) : r.journey_id = zugid(status))
            => \A cached \in fetchone(bench.table, zugid(status)) :
                 \A trip \in TripOutcomes, journeys \in JourneysOutcomes :
                    LET o == fetch_headsign(bench.table, status, cached, trip, journeys) IN
                        \A b \in Passengers \ {a} :
                            RowsFor(o.table, b) = RowsFor(bench.table, b)

---------------------------------------------------------------------------
(* Journey ids *)

\* str(n) has as many digits for both statuses
SameDigits(a, b) == Len(Str(a.fromScheduled)) = Len(Str(b.fromScheduled))

\* the train id begins with a decimal digit
BeginsWithDigit(id) == id # <<>> /\ \E d \in 0..9 : id[1] = Digit(d)

\* the statuses are equal in what identifies them
SameRide(a, b) == a.fromScheduled = b.fromScheduled /\ a.train = b.train

\* C26 as stated: statuses equal in scheduled departure and train id get
\* one journey id, and statuses that differ in either get different ones.
C26_ZugidIdentifies ==
    bench.ids # <<>>
        => /\ SameRide(bench.left, bench.right) => bench.ids[1] = bench.ids[2]
           /\ ~SameRide(bench.left, bench.right) => bench.ids[1] # bench.ids[2]

\* C26, amended: statuses equal in scheduled departure and train id get
\* one journey id whatever their other fields; statuses that differ in
\* either get different journey ids if their scheduled times have the same
\* number of decimal digits, or if neither train id begins with a digit.
C26_ZugidIdentifiesSameDigits ==
    bench.ids # <<>>
        => /\ SameRide(bench.left, bench.right) => bench.ids[1] = bench.ids[2]
           /\ (/\ ~SameRide(bench.left, bench.right)
               /\ \/ SameDigits(bench.left, bench.right)
                  \/ (~BeginsWithDigit(bench.left.train)
                        /\ ~BeginsWithDigit(bench.right.train)))
                 => bench.ids[1] # bench.ids[2]

\* C26, the case: two statuses of one scheduled departure and two train ids
\* that begin with digits have got different journey ids.
C26_Witness ==
    /\ bench.ids # <<>>
    /\ bench.left.fromScheduled = bench.right.fromScheduled
    /\ bench.left.train # bench.right.train
    /\ BeginsWithDigit(bench.left.train)
    /\ BeginsWithDigit(bench.right.train)
    /\ bench.ids[1] # bench.ids[2]

---------------------------------------------------------------------------
(* Requests *)

\* C28: a request whose bearer token is no user's webhook token leaves the
\* trips and the break mode of every user, whatever its reason and status.
C28_UnknownTokenChangesNothing ==
    \A tok \in Tokens, ev \in Events :
        (\A u \in Users : TokenWebhook[u] # tok)
            => receive(trips, mode, tok, ev[1], ev[2])
                 = {[trips |-> trips, mode |-> mode]}

\* C28, the case: a user has a trip and a forced break, and an event that
\* changes both when it comes with the user's token comes with a token that
\* is nobody's.
C28_Witness ==
    \E tok \in Tokens, ev \in Events, u \in Users :
        /\ \A v \in Users : TokenWebhook[v] # tok
        /\ trips[u] # {}
        /\ mode[u] = FORCE_BREAK
        /\ \A o \in receive(trips, mode, TokenWebhook[u], ev[1], ev[2]) :
              o.trips # trips /\ o.mode # mode
        /\ receive(trips, mode, tok, ev[1], ev[2]) = {[trips |-> trips, mode |-> mode]}

---------------------------------------------------------------------------
(* The frame of an undo *)

\* C29: an undo event that is accepted deletes one trip, the latest by
\* departure time that find_last_trip_for answered, whatever the journey id
\* of the event's status; every other trip with its patch, and the break
\* mode, are as before.
C29_AcceptedUndoDeletesLastOnly ==
    \A u \in Users, status \in UndoStatuses :
        \A last \in find_last_trip_for(trips, u) :
            LET o == handler(trips, mode, u, "undo", status, last) IN
                o.resp = "unpublished"
                    => /\ last \in trips[u]
                       /\ \A r \in trips[u] : FromTime(r) <= FromTime(last)
                       /\ o.trips[u] = trips[u] \ {last}
                       /\ \A v \in Users \ {u} : o.trips[v] = trips[v]
                       /\ o.mode = mode
                       /\ \A other \in UndoStatuses :
                             handler(trips, mode, u, "undo", other, last) = o

\* C29, the case: the event's status is that of a stored trip with a patch
\* that is not the last trip, while a break is forced; the last trip goes
\* and the trip of the status stays with its patch.
C29_Witness ==
    \E u \in Users, status \in UndoStatuses :
        \E last \in find_last_trip_for(trips, u) :
            /\ last # None
            /\ mode[u] # NATURAL
            /\ LET trip == find(trips, u, zugid(status)) IN
                /\ trip # None
                /\ trip # last
                /\ trip.patch # EmptyPatch
                /\ LET o == handler(trips, mode, u, "undo", status, last) IN
                    /\ o.resp = "unpublished"
                    /\ o.trips[u] = {trip}

\* the journey ids stored for a user
StoredIds(T, u) == {r.journey_id : r \in T[u]}

\* no two trips of the user depart at the same time
DistinctDepartures(T, u) ==
    \A r, q \in T[u] : FromTime(r) = FromTime(q) => r = q

\* C30: the click on the confirmation of /journey undo deletes no trip
\* but the one the confirmation showed, whatever events came in between
\* (looked at where the user's trips depart at different times).
C30_ConfirmedUndoDeletesShownOnly ==
    [][\A u \in Users :
          (undoView[u] # None /\ undoView'[u] = None /\ DistinctDepartures(trips, u))
              => StoredIds(trips, u) \ {zugid(undoView[u])} \subseteq StoredIds(trips', u)]_vars

\* the store after the click's upsert of the shown trip as checked in
Clicked(u) == upsert(trips, u, [undoView[u] EXCEPT !.checkedIn = TRUE])

\* C31: when the undo event that the click on the confirmation posts is
\* answered with the rejection, the user's trips are what they were before
\* the click, the raw checkedIn of each trip included (looked at where the
\* shown trip is still stored and the trips depart at different times).
C31_RejectedUndoChangesNothing ==
    \A u \in Users :
        (/\ undoView[u] # None
         /\ find(trips, u, zugid(undoView[u])) # None
         /\ DistinctDepartures(trips, u))
            => \A last \in find_last_trip_for(Clicked(u), u) :
                 LET o == handler(Clicked(u), mode, u, "undo",
                                  [undoView[u] EXCEPT !.checkedIn = FALSE], last)
                 IN o.resp = "not_unpublishing" => o.trips = trips

---------------------------------------------------------------------------
(* The first trip *)

---------------------------------------------------------------------------
(* The current journey after an event *)

\* C33: after handle_status_update the trip of the event's status is one of
\* the trips of the user's current journey, for every reason and in every
\* reachable state.
C33_EventTripIsCurrent ==
    \A u \in Users, reason \in KnownReasons :
        \A status \in CallStatuses[reason], last \in find_last_trip_for(trips, u) :
            LET h == handle_status_update(trips, mode, u, reason, status, last) IN
                zugid(status) \in CurrentIds(h.trips, u)

---------------------------------------------------------------------------
(* Messages *)

\* C34: there is at most one Message record for each trip and channel, and
\* a handler that awaits the sending of a new message does so for a trip
\* and channel without record: a delivery for a trip that has a message
\* edits it.
C34_OneMessagePerTripAndChannel ==
    /\ \A m, n \in bench.messages :
          (m.journey_id = n.journey_id /\ m.channel = n.channel) => m = n
    /\ \A u \in Users : \A h \in pending[u] :
          h.sending => Message_find(bench.messages, h.journey_id, Channels[h.at]) = {}

\* C34, the case: a trip has its message in both channels, and the handler
\* of a second delivery for it has entered the loop.
C34_Witness ==
    \E u \in Users : \E h \in pending[u] :
        /\ h.at = 1
        /\ ~h.sending
        /\ lock[u]
        /\ \A i \in 1..Len(Channels) :
              Message_find(bench.messages, h.journey_id, Channels[i]) # {}

---------------------------------------------------------------------------
(* Edit sessions *)

\* the member of a document at a path, Absent if it has none
RECURSIVE At(_, _)
At(d, path) ==
    IF path = <<>> THEN d
    ELSE IF d.k = "obj" /\ path[1] \in DOMAIN d.m THEN At(d.m[path[1]], Tail(path))
    ELSE Absent

\* the session set the field, or one it lies in or that lies in it
SetBySession(path) ==
    \E q \in Fields(bench.view.prepare_patch) : IsPrefix(q, path) \/ IsPrefix(path, q)

\* C35: when an edit session is committed, every field of the stored patch
\* that was written since /journey edit was issued, and that the session
\* did not set, is in the stored patch after the commit.
C35_CommitKeepsLaterWrites ==
    [][(bench.view # None /\ bench'.view = None)
          => \A path \in Fields(bench.status_patch) :
                (At(bench.status_patch, path) # At(bench.view.seen, path)
                    /\ ~SetBySession(path))
                    => At(bench'.status_patch, path) = At(bench.status_patch, path)]_vars

\* the paths of the fields /journey edit can be given
EditFields == {<<"fromStation", "name">>, <<"fromStation", "realTime">>, <<"comment">>}

\* the argument of /journey edit for a field
ArgumentFor(a, path) ==
    IF path = <<"comment">> THEN a[3]
    ELSE IF path = <<"fromStation", "name">> THEN a[1] ELSE a[2]

\* C36: a field that /journey edit is not given has in the new patch the
\* value it has in the stored patch.
C36_OmittedFieldsKept ==
    bench.view = None
        => \A a \in EditArguments, path \in EditFields :
              ArgumentFor(a, path) = Omitted
                  => At(edit_newpatch(bench.status_patch,
                                      edit_prepare_patch(a[1], a[2], a[3])), path)
                       = At(bench.status_patch, path)

---------------------------------------------------------------------------
(* The mocked events of the commands *)

\* C37: the event that the commit of an edit session posts after it wrote
\* the patch is one for the journey id of the patched trip, breaks no
\* journey and leaves the break mode (looked at where the user's trips
\* depart at different times).
C37_CommitNeverResegments ==
    (/\ bench # None
     /\ find(trips, bench.user_id, bench.journey_id) # None
     /\ DistinctDepartures(trips, bench.user_id))
        => LET u == bench.user_id
               trip == find(trips, u, bench.journey_id)
               T1 == write_patch(trips, u, trip, bench.newpatch)
           IN /\ zugid(MockedStatus(find(T1, u, bench.journey_id))) = bench.journey_id
              /\ \A last \in find_last_trip_for(T1, u) :
                    LET o == commit_post(T1, mode, u, bench.journey_id, last) IN
                        ~o.broke /\ o.mode = mode

---------------------------------------------------------------------------
(* The previous trip in the break decision *)

\* the arrival of a stored trip as its patch has it, else as travelynx sent it
PatchedArrival(row) ==
    IF "toReal" \in DOMAIN row.patch THEN row.patch.toReal ELSE row.status.toReal

\* the store with the patch of trip row taken away
Unpatched(T, u, row) == write_patch(T, u, row, EmptyPatch)

---------------------------------------------------------------------------
(* The lock over time *)

\* request t of user u waits for the lock or is in the handler
Unanswered(u, t) ==
    \/ \E i \in 1..Len(waiting(u)) : waiting(u)[i] = t
    \/ \E h \in pending[u] : h.task = t

\* C39: the lock of a user is held only while a handler of that user is
\* suspended inside the block; a held lock is released in the end, however
\* the handler leaves; and every request that waits for the lock is
\* handled to its end in the end.
C39_LockAlwaysReleased ==
    /\ [](\A u \in Users : lock[u] <=> pending[u] # {})
    /\ \A u \in Users : lock[u] ~> ~lock[u]
    /\ \A u \in Users, t \in Tickets : Unanswered(u, t) ~> ~Unanswered(u, t)

\* C39, the case: the lock is held by a handler that is about to raise,
\* while as many requests as can wait for it.
C39_Witness ==
    \E u \in Users : \E h \in pending[u] :
        /\ lock[u]
        /\ Len(waiting(u)) = MaxWaiting
        /\ h.journey_id \notin {r.journey_id : r \in find_current_trips_for(trips, u)}

====
